---------------------------- MODULE Spec2Model ----------------------------
(***************************************************************************)
(* A model of the listing ingestion pipeline of the apartment bot:         *)
(*   - the fingerprints (md5) the scrapers and generic_scraper compute,    *)
(*   - the merge of run_generic_scraper against merged_apartments.json,    *)
(*   - the payload locator of facebook.py (process_json_scripts and the    *)
(*     detail loop of fetch_and_parse_details),                            *)
(*   - the enrichment tasks of facebook.py (retry, batches, TaskGroup).    *)
(* Python dicts are records; a key a dict lacks is a field the record      *)
(* lacks.  Python strings are strings; None is the string "None".          *)
(***************************************************************************)
EXTENDS Integers, Sequences, FiniteSets, TLC

VARIABLES
    \* ---- fingerprint functions applied to two raw items (SpecFp)
    fp_source,      \* which normalizer is applied
    fp_raw,         \* <<raw item 1, raw item 2>>
    fp_out,         \* <<normalized 1, normalized 2>>, <<>> before the call
    \* ---- run_generic_scraper (Spec)
    store,          \* content of MERGED_OUTPUT_FILE: md5 -> record (<<>> : no file or {})
    pc,             \* position in run_generic_scraper
    tasks,          \* adapter name -> "none" | "running" | "returned" | "raised"
    results,        \* adapter name -> the list its run() returned
    all_apartments, \* the concatenated fresh listings, md5 and type set
    old_by_md5,     \* the store as read and re-keyed, mutated in place by the loop
    new_items,      \* md5 -> fresh listing
    updated_items,  \* md5 -> stored record with the fresh id and url
    pos,            \* index of the next item of all_apartments the loop handles
    reads,          \* times the running pass loaded MERGED_OUTPUT_FILE
    writes,         \* times the running pass dumped to MERGED_OUTPUT_FILE
    \* ---- the completions of the concurrent runs and page fetches (SpecOrder)
    pages,          \* yad2 get_current: page number -> its fetch, <<>> before page 1
    finished,       \* the adapters whose run() returned, in the order they returned
    \* ---- the payload locator applied to the scripts of one page (SpecLocator)
    loc_scripts,    \* json_script_strs: the candidate scripts, in document order
    loc_called,     \* which locator was called, "none" before the call
    loc_result,     \* what the call returned or raised
    \* ---- enrich_apartments_with_details on the listings of one page (SpecEnrich)
    en_apartments,  \* apartments: the listings, updated in place by the tasks
    en_pc,          \* position in enrich_apartments_with_details
    en_i,           \* i: index of the first listing of the current batch
    en_tasks,       \* index -> the task fetch_and_parse_details of that listing
    en_page,        \* what run() got for the listing page, "none" before
    \* ---- telegram_bot.py: the scraping cycles of one bot process (SpecBot)
    bot_file,           \* content of MERGED_OUTPUT_FILE as the bot's cycles leave it
    known_apartments,   \* self.known_apartments: md5 -> record
    subscribed_chats,   \* self.subscribed_chats
    bot_pc,             \* position in run_scraping_cycle
    bot_cycles,         \* cycles run_polling has started
    rec_new,            \* new_items of the last run_generic_scraper
    rec_updated,        \* updated_items of the last run_generic_scraper
    new_apartments,     \* the items the bot found new in this cycle
    updated_apartments, \* the items the bot found updated in this cycle
    bot_queue,          \* items of the running notification loop not yet handled
    bot_apt,            \* apt: the item of the running iteration, None between two
    bot_chats,          \* chats of the copy of subscribed_chats not yet sent to
    sent,               \* messages delivered in this cycle
    subs_file,          \* content of SUBSCRIBERS_FILE: {} no file, {S} the list S
    subs_saved,         \* the last step called save_subscribers
    last_cmd,           \* the command or button the last step handled, if it was one
    last_action,        \* chat -> what last touched its subscription
    bot_loaded,         \* the md5 keys load_known_apartments found at the start
    bot_announced,      \* the md5 keys of the items of new_apartments so far
    \* ---- yad2.py: the page fetches of one run and the build id (SpecBuild)
    yad_pc,             \* position in get_current
    yad_build_id,       \* self.build_id
    yad_fetches,        \* calls of _fetch_build_id so far
    yad_tasks           \* page number -> its _get_page_data

fpVars == <<fp_source, fp_raw, fp_out>>
recVars == <<store, pc, tasks, results, all_apartments, old_by_md5, new_items,
             updated_items, pos, reads, writes>>

\* Each part of the pipeline is checked on its own: its actions leave the
\* variables of the other parts alone.
ordVars == <<pages, finished>>
locVars == <<loc_scripts, loc_called, loc_result>>
enVars == <<en_apartments, en_pc, en_i, en_tasks, en_page>>
botVars == <<bot_file, known_apartments, subscribed_chats, bot_pc, bot_cycles,
             rec_new, rec_updated, new_apartments, updated_apartments,
             bot_queue, bot_apt, bot_chats, sent,
             subs_file, subs_saved, last_cmd, last_action, bot_loaded,
             bot_announced>>
bldVars == <<yad_pc, yad_build_id, yad_fetches, yad_tasks>>
FpOnly == UNCHANGED <<recVars, ordVars, locVars, enVars, botVars, bldVars>>
RecOnly == UNCHANGED <<fpVars, ordVars, locVars, enVars, botVars, bldVars>>
OrdOnly == UNCHANGED <<fpVars, locVars, enVars, botVars, bldVars>>
LocOnly == UNCHANGED <<fpVars, recVars, ordVars, enVars, botVars, bldVars>>
EnOnly == UNCHANGED <<fpVars, recVars, ordVars, locVars, botVars, bldVars>>
BotOnly == UNCHANGED <<fpVars, recVars, ordVars, locVars, enVars, bldVars>>
BldOnly == UNCHANGED <<fpVars, recVars, ordVars, locVars, enVars, botVars>>

-----------------------------------------------------------------------------
(* Values *)

Tokens == {"A", "B"}
Prices == {"5000", "6000"}
Cities == {"", "Tel Aviv"}
Streets == {"", "Herzl"}

None == "None"
NA == "N/A"

\* Python dict: d[k] = v, and the empty dict
Put(d, k, v) == [x \in DOMAIN d \cup {k} |-> IF x = k THEN v ELSE d[x]]
EmptyDict == <<>>

\* Python's repr of a str inside str(dict) / json.dumps
Quote(s) == "'" \o s \o "'"

\* hashlib.md5(s.encode()).hexdigest(): a collision-free digest of the string
Md5(s) == "md5<" \o s \o ">"

-----------------------------------------------------------------------------
(* yad2.py *)

APARTMENT_PAGE_URL_TEMPLATE(token) == "https://www.yad2.co.il/realestate/item/" \o token

\* The raw feed items of yad2: token, price and address (city, street).
Yad2RawItems == [token : Tokens, price : Prices, city : Cities, street : Streets]

\* ApartmentScraper._process_item, the unified location field
Yad2Location(city, street) ==
    IF city # "" /\ street # "" THEN street \o ", " \o city
    ELSE IF city # "" THEN city
    ELSE IF street # "" THEN street
    ELSE ""

\* str(processed_item) at the moment _get_md5 is called: every key set so far,
\* in insertion order (coordinates, rooms, size, images, tags and floor are
\* content fields like price and are left out of the model).
Yad2Str_WithoutId(p) ==
    "{'city': " \o Quote(p.city) \o ", 'street': " \o Quote(p.street)
    \o ", 'location': " \o Quote(p.location) \o ", 'price': " \o p.price \o "}"
Yad2Str(p) ==
    "{'city': " \o Quote(p.city) \o ", 'street': " \o Quote(p.street)
    \o ", 'location': " \o Quote(p.location) \o ", 'price': " \o p.price
    \o ", 'id': " \o Quote(p.id)
    \o ", 'apartment_page_url': " \o Quote(p.apartment_page_url) \o "}"

\* ApartmentScraper._get_md5
Yad2_get_md5(thing) == Md5(Yad2Str(thing))

\* ApartmentScraper._process_item
process_item(item) ==
    LET processed_item ==
            [city |-> item.city,
             street |-> item.street,
             location |-> Yad2Location(item.city, item.street),
             price |-> item.price,
             id |-> item.token,
             apartment_page_url |-> APARTMENT_PAGE_URL_TEMPLATE(item.token)]
    IN  [city |-> processed_item.city,
         street |-> processed_item.street,
         location |-> processed_item.location,
         price |-> processed_item.price,
         id |-> processed_item.id,
         apartment_page_url |-> processed_item.apartment_page_url,
         md5 |-> Yad2_get_md5(processed_item),
         type |-> "yad2"]

-----------------------------------------------------------------------------
(* facebook_groups_scraper.py *)

\* The raw items of the listings API: id, url, price and location.
GroupsRawItems ==
    {[id |-> t, url |-> "https://www.facebook.com/groups/posts/" \o t,
      price |-> p, city |-> c, street |-> s] :
        t \in Tokens, p \in Prices, c \in Cities, s \in Streets}

\* json.dumps(comparison_data, sort_keys=True, ...)
GroupsComparisonString(item) ==
    "{full_address: " \o Quote(item.full_address) \o ", id: " \o Quote(item.id)
    \o ", price: " \o item.price \o "}"

\* _get_md5_for_comparison
get_md5_for_comparison(item) == Md5(GroupsComparisonString(item))

\* FacebookGroupsScraper.normalize_apartment_data ('N/A' for a missing street;
\* hood and area are constant in the model and left out of the address)
normalize_apartment_data(raw_item) ==
    LET street == IF raw_item.street = "" THEN NA ELSE raw_item.street
        city == IF raw_item.city = "" THEN NA ELSE raw_item.city
        full_address == IF street # NA THEN street \o ", " \o city ELSE city
    IN  [id |-> raw_item.id,
         apartment_page_url |-> raw_item.url,
         price |-> raw_item.price,
         location |-> full_address,
         full_address |-> full_address,
         type |-> "facebook groups",
         md5 |-> get_md5_for_comparison(
                    [price |-> raw_item.price, id |-> raw_item.id,
                     full_address |-> full_address])]

-----------------------------------------------------------------------------
(* JSON values, as json.loads builds them, and the Python operations on them *)

JNull == [t |-> "null"]
JStr(parts) == [t |-> "str", parts |-> parts]   \* the text is the parts joined
JList(items) == [t |-> "list", items |-> items]
JDict(map) == [t |-> "dict", map |-> map]    \* map: key -> value
JNum(digits) == [t |-> "num", digits |-> digits] \* a number, by its digits
JEmptyDict == JDict(EmptyDict)
JEmptyList == JList(<<>>)

RECURSIVE Text(_)
Text(parts) == IF parts = <<>> THEN "" ELSE Head(parts) \o Text(Tail(parts))

\* the result of a call: a value, or an exception
Val(v) == [k |-> "val", v |-> v]
Raise(exc) == [k |-> "raise", exc |-> exc]

\* bool(v)
Truthy(v) ==
    IF v.t = "null" THEN FALSE
    ELSE IF v.t = "dict" THEN DOMAIN v.map # {}
    ELSE IF v.t = "num" THEN v.digits # "0"
    ELSE IF v.t = "str" THEN Text(v.parts) # ""
    ELSE v.items # <<>>

\* s.startswith(prefix), the text being split where the prefix would end
StartsWith(s, prefix) == s.parts # <<>> /\ Head(s.parts) = prefix

\* d.get(key, {}) : AttributeError unless d is a dict
DictGet_Strict(d, key) ==
    IF d.t # "dict" THEN Raise("AttributeError")
    ELSE IF key \in DOMAIN d.map THEN Val(d.map[key])
    ELSE Raise("KeyError")
DictGet(d, key) ==
    IF d.t # "dict" THEN Raise("AttributeError")
    ELSE IF key \in DOMAIN d.map THEN Val(d.map[key])
    ELSE Val(JEmptyDict)

\* r.get(key, {}) on the result of an earlier get
ThenGet(r, key) == IF r.k = "raise" THEN r ELSE DictGet(r.v, key)

\* for x in v : the items a loop over v meets that can pass isinstance(x, list)
\* (the keys of a dict and the characters of a str are str), TypeError for a
\* value that is not iterable
Iterate(v) ==
    IF v.t = "list" THEN Val(v.items)
    ELSE IF v.t \in {"dict", "str"} THEN Val(<<>>)
    ELSE Raise("TypeError")

-----------------------------------------------------------------------------
(* facebook.py: the listing record and generic_scraper's md5 of it *)

JSON_KEY_PREFIX_LISTINGS == "adp_CometMarketplaceRealEstateMapStoryQueryRelayPreloader_"
JSON_KEY_PREFIX_DETAILS == "adp_MarketplacePDPContainerQueryRelayPreloader_"

SHARE_URI(id) == "https://www.facebook.com/marketplace/item/" \o id

\* for_sale_item of a listing edge, with the address its detail page holds
FacebookRawItems ==
    {[id |-> t, formatted_price |-> f, share_uri |-> SHARE_URI(t),
      city |-> c, street |-> s] :
        t \in Tokens, f \in {NA} \cup {"ILS " \o p : p \in Prices},
        c \in Cities, s \in Streets}

\* the edge of the listing payload that holds a raw item
EdgeOf(raw) ==
    JDict("node" :> JDict("for_sale_item" :> JDict(
        "id" :> JStr(<<raw.id>>)
        @@ "formatted_price" :> JDict("text" :> JStr(<<raw.formatted_price>>))
        @@ "share_uri" :> JStr(<<raw.share_uri>>))))

\* FacebookMarketplaceScraper.parse_rental_info: the digits of the price text
numeric_price(formatted_price_text) ==
    IF formatted_price_text = NA THEN None
    ELSE IF \E p \in Prices : formatted_price_text = "ILS " \o p
         THEN CHOOSE p \in Prices : formatted_price_text = "ILS " \o p
         ELSE None

\* x.get(key, 'N/A') of a text attribute
TextOr(d, key) == IF key \in DOMAIN d.map THEN Text(d.map[key].parts) ELSE NA

\* FacebookMarketplaceScraper.parse_rental_info
parse_rental_info(edge) ==
    LET node == DictGet(edge, "node")
        for_sale_item == ThenGet(node, "for_sale_item")
        price_obj == ThenGet(for_sale_item, "formatted_price")
    IN  IF for_sale_item.k = "raise" THEN for_sale_item
        ELSE IF for_sale_item.v.t # "dict" \/ price_obj.v.t # "dict"
        THEN Raise("AttributeError")
        ELSE LET formatted_price_text == TextOr(price_obj.v, "text")
             IN  Val([id |-> TextOr(for_sale_item.v, "id"),
                      price |-> numeric_price(formatted_price_text),
                      formatted_price |-> formatted_price_text,
                      share_uri |-> TextOr(for_sale_item.v, "share_uri")])

\* the product details of the page behind a raw item's share_uri
DetailsOf(raw) ==
    JDict("target" :> JDict(
        "redacted_description" :> JDict("text" :> JStr(<<"Sunny flat">>))
        @@ "location" :> JDict("reverse_geocode_detailed" :>
                                    JDict("city" :> JStr(<<raw.city>>)))
        @@ "home_address" :> JDict("street" :> JStr(<<raw.street>>))
        @@ "delivery_types" :> JList(<<JStr(<<"IN_PERSON">>)>>)
        @@ "unit_room_info" :> JStr(<<"3", " beds", " - 1 bath">>)
        @@ "marketplace_comments" :> JDict("total_count" :> JNum("2"))))

\* FacebookMarketplaceScraper.safe_get: None when a key is missing or the
\* value on the way is not a dict
RECURSIVE safe_get(_, _)
safe_get(d, keys) ==
    IF keys = <<>> THEN d
    ELSE IF d.t = "dict" /\ Head(keys) \in DOMAIN d.map
         THEN safe_get(d.map[Head(keys)], Tail(keys))
         ELSE JNull

\* x or 'N/A' for a text or number x
OrNA(x) == IF Truthy(x) THEN (IF x.t = "str" THEN Text(x.parts) ELSE x.digits) ELSE NA

\* re.search(r'(\d+)\s*beds?', unit_room_info): the text is split around the
\* place the pattern can match
Digits == {"1", "2", "3", "4"}
room_match(unit_room_info) ==
    /\ Len(unit_room_info.parts) >= 2
    /\ unit_room_info.parts[1] \in Digits
    /\ unit_room_info.parts[2] \in {" beds", " bed", "beds", "bed"}

\* FacebookMarketplaceScraper.extract_additional_details
extract_additional_details(product_details) ==
    LET target == safe_get(product_details, <<"target">>)
        description == OrNA(safe_get(target, <<"redacted_description", "text">>))
        location_details == safe_get(target, <<"location", "reverse_geocode_detailed">>)
        address_city == OrNA(safe_get(location_details, <<"city">>))
        street == OrNA(safe_get(target, <<"home_address", "street">>))
        full_address == IF street # NA /\ address_city # NA
                        THEN street \o ", " \o address_city ELSE NA
        types == safe_get(target, <<"delivery_types">>)
        delivery_types == IF Truthy(types) /\ types.t = "list"
                          THEN [i \in DOMAIN types.items |-> Text(types.items[i].parts)]
                          ELSE <<>>
        info == safe_get(target, <<"unit_room_info">>)
        unit_room_info == OrNA(info)
        rooms == IF unit_room_info # NA /\ room_match(info) THEN info.parts[1] ELSE NA
        comments == safe_get(target, <<"marketplace_comments">>)
        comments_count == OrNA(safe_get(comments, <<"total_count">>))
    IN  IF target.t # "dict" THEN Raise("Exception")
        ELSE IF Truthy(info) /\ info.t # "str" THEN Raise("TypeError")
        ELSE Val([description |-> description,
                  full_address |-> full_address,
                  location |-> full_address,
                  delivery_types |-> delivery_types,
                  unit_room_info |-> unit_room_info,
                  rooms |-> rooms,
                  comments_count |-> comments_count])

\* the attributes extract_additional_details returns
DetailKeys ==
    {"description", "full_address", "location", "delivery_types",
     "unit_room_info", "rooms", "comments_count"}

\* an update that sets nothing
Update_Skipped(d, other) == d

\* dict.update: the keys of other set in d
Update(d, other) ==
    [k \in DOMAIN d \cup DOMAIN other |-> IF k \in DOMAIN other THEN other[k] ELSE d[k]]

\* The listing FacebookMarketplaceScraper.run returns: parse_rental_info's
\* record updated with the detail attributes.
FacebookListing(raw) ==
    Update(parse_rental_info(EdgeOf(raw)).v,
           extract_additional_details(DetailsOf(raw)).v)

\* str of a list of texts
RECURSIVE ListStr(_)
ListStr(l) ==
    IF l = <<>> THEN ""
    ELSE Quote(Head(l)) \o (IF Len(l) > 1 THEN ", " ELSE "") \o ListStr(Tail(l))

\* str(apt) of a facebook listing after apt['type'] is set
FacebookStr(apt) ==
    "{'id': " \o Quote(apt.id) \o ", 'price': " \o apt.price
    \o ", 'formatted_price': " \o Quote(apt.formatted_price)
    \o ", 'share_uri': " \o Quote(apt.share_uri)
    \o ", 'description': " \o Quote(apt.description)
    \o ", 'full_address': " \o Quote(apt.full_address)
    \o ", 'location': " \o Quote(apt.location)
    \o ", 'delivery_types': [" \o ListStr(apt.delivery_types) \o "]"
    \o ", 'unit_room_info': " \o Quote(apt.unit_room_info)
    \o ", 'rooms': " \o Quote(apt.rooms)
    \o ", 'comments_count': " \o apt.comments_count
    \o ", 'type': " \o Quote(apt.type) \o "}"

\* generic_scraper._get_md5 (applied to the listings that carry no md5)
get_md5(thing) == Md5(FacebookStr(thing))

\* generic_scraper.run_generic_scraper, lines 92-97: type and md5 of one listing
Annotate(apt, scraper_type) ==
    LET typed == [k \in DOMAIN apt \cup {"type"} |->
                    IF k = "type" THEN scraper_type ELSE apt[k]]
    IN  IF "md5" \in DOMAIN typed THEN typed
        ELSE [k \in DOMAIN typed \cup {"md5"} |->
                    IF k = "md5" THEN get_md5(typed) ELSE typed[k]]

-----------------------------------------------------------------------------
(* The fingerprint functions applied to two raw items of one source *)

FpSources == {"yad2", "facebook marketplace", "facebook groups"}

FpRawItems(source) ==
    IF source = "yad2" THEN Yad2RawItems
    ELSE IF source = "facebook marketplace" THEN FacebookRawItems
    ELSE GroupsRawItems

FpInit ==
    /\ fp_source \in FpSources
    /\ fp_raw \in FpRawItems(fp_source) \X FpRawItems(fp_source)
    /\ fp_out = <<>>

FpYad2 ==
    /\ fp_source = "yad2" /\ fp_out = <<>>
    /\ fp_out' = <<process_item(fp_raw[1]), process_item(fp_raw[2])>>
    /\ UNCHANGED <<fp_source, fp_raw>>
    /\ FpOnly

FpFacebook ==
    /\ fp_source = "facebook marketplace" /\ fp_out = <<>>
    /\ fp_out' = <<Annotate(FacebookListing(fp_raw[1]), "facebook marketplace"),
                   Annotate(FacebookListing(fp_raw[2]), "facebook marketplace")>>
    /\ UNCHANGED <<fp_source, fp_raw>>
    /\ FpOnly

FpGroups ==
    /\ fp_source = "facebook groups" /\ fp_out = <<>>
    /\ fp_out' = <<normalize_apartment_data(fp_raw[1]),
                   normalize_apartment_data(fp_raw[2])>>
    /\ UNCHANGED <<fp_source, fp_raw>>
    /\ FpOnly

FpIdle == fp_source = "yad2" /\ fp_raw = <<>> /\ fp_out = <<>>

-----------------------------------------------------------------------------
(* generic_scraper.py: run_generic_scraper *)

MaxYad2Items == 2       \* length of the list ApartmentScraper.run returns
MaxFacebookItems == 2   \* length of the list FacebookMarketplaceScraper.run returns
MaxInitStore == 2       \* records in merged_apartments.json when the model starts

\* SCRAPER_REGISTRY, in its order, and each scraper's type_name
SCRAPER_REGISTRY == <<"yad2", "facebook">>
type_name(name) == IF name = "yad2" THEN "yad2" ELSE "facebook marketplace"
Adapters == {SCRAPER_REGISTRY[i] : i \in 1..Len(SCRAPER_REGISTRY)}

\* Sequences over S of length at most n
SeqUpTo(S, n) == UNION {[1..k -> S] : k \in 0..n}

\* What the feeds hold in the model: one address and one price, any token.
Yad2Feed == {r \in Yad2RawItems :
                r.city = "Tel Aviv" /\ r.street = "Herzl" /\ r.price = "5000"}
FacebookFeed == {r \in FacebookRawItems :
                r.city = "Tel Aviv" /\ r.street = "Herzl" /\ r.formatted_price = "ILS 5000"}

\* The lists the two run() coroutines can return
Yad2Runs == SeqUpTo({process_item(r) : r \in Yad2Feed}, MaxYad2Items)
FacebookRuns == SeqUpTo({FacebookListing(r) : r \in FacebookFeed}, MaxFacebookItems)
RunsOf(name) == IF name = "yad2" THEN Yad2Runs ELSE FacebookRuns

\* The listings a pass can meet, as run_generic_scraper annotates them
FreshListings ==
    {Annotate(process_item(r), "yad2") : r \in Yad2Feed}
    \cup {Annotate(FacebookListing(r), "facebook marketplace") : r \in FacebookFeed}

\* A record an earlier pass left in the file under the md5 of listing l: the
\* id (and the page url, where the record has one) and the price are whatever
\* that pass stored.
StoredVersions(l) ==
    {[k \in DOMAIN l |->
        IF k = "id" THEN t
        ELSE IF k = "apartment_page_url" THEN APARTMENT_PAGE_URL_TEMPLATE(t)
        ELSE IF k = "price" THEN p
        ELSE l[k]] : t \in Tokens, p \in Prices}

StoredRecords == UNION {StoredVersions(l) : l \in FreshListings}

\* The files the model starts from: every key is the md5 of its record.
InitStores ==
    {f \in UNION {[K -> StoredRecords] :
                    K \in {K \in SUBSET {l.md5 : l \in FreshListings} :
                                Cardinality(K) <= MaxInitStore}} :
        \A k \in DOMAIN f : f[k].md5 = k}

\* line 111: old_by_md5 = {item['md5']: item for item in old_data.values()}
ReKey_Retyped(old_data) ==
    [m \in {old_data[k].md5 : k \in DOMAIN old_data} |->
        Put(old_data[CHOOSE k \in DOMAIN old_data : old_data[k].md5 = m],
            "type", "unknown")]
ReKey(old_data) ==
    [m \in {old_data[k].md5 : k \in DOMAIN old_data} |->
        old_data[CHOOSE k \in DOMAIN old_data : old_data[k].md5 = m]]

\* line 125: the branch that updates a stored record
IdChanged_Always(current_item, existing_item) == TRUE
IdChanged(current_item, existing_item) == current_item.id # existing_item.id

\* lines 127-128: existing_item['id'] = ..., existing_item['apartment_page_url'] = ...
UpdateExisting_UrlOnly(existing_item, current_item) ==
    Put(existing_item, "apartment_page_url", current_item.apartment_page_url)
UpdateExisting(existing_item, current_item) ==
    Put(Put(existing_item, "id", current_item.id),
        "apartment_page_url", current_item.apartment_page_url)

\* lines 117-147, one iteration of the loop on the state
\* [old: old_by_md5, new: new_items, upd: updated_items, err: an exception].
\* existing_item is the object old_by_md5 holds, so what the loop sets in it
\* shows in old_by_md5 and, once it is there, in updated_items.
MergeItem_KeyedById(st, current_item) ==
    LET current_md5 == current_item.md5
    IN  IF current_md5 \in DOMAIN st.old
        THEN st
        ELSE [st EXCEPT !.new = Put(st.new, current_item.id, current_item)]
MergeItem_AlsoNew(st, current_item) ==
    LET current_md5 == current_item.md5
    IN  IF current_md5 \in DOMAIN st.old
           /\ IdChanged(current_item, st.old[current_md5])
           /\ "apartment_page_url" \in DOMAIN current_item
        THEN LET e == UpdateExisting(st.old[current_md5], current_item)
             IN  [st EXCEPT !.old = Put(st.old, current_md5, e),
                            !.upd = Put(st.upd, current_md5, e),
                            !.new = Put(st.new, current_md5, current_item)]
        ELSE IF current_md5 \in DOMAIN st.old THEN st
        ELSE [st EXCEPT !.new = Put(st.new, current_md5, current_item)]
MergeItem(st, current_item) ==
    LET current_md5 == current_item.md5
    IN  IF current_md5 \in DOMAIN st.old
        THEN LET existing_item == st.old[current_md5]
             IN  IF IdChanged(current_item, existing_item)
                 THEN IF "apartment_page_url" \in DOMAIN current_item
                      THEN LET e == UpdateExisting(existing_item, current_item)
                           IN  [st EXCEPT !.old = Put(st.old, current_md5, e),
                                          !.upd = Put(st.upd, current_md5, e)]
                      ELSE \* line 128: KeyError, after line 127 set the id
                           [st EXCEPT
                              !.old = Put(st.old, current_md5,
                                          Put(existing_item, "id", current_item.id)),
                              !.err = "KeyError"]
                 ELSE st
        ELSE [st EXCEPT !.new = Put(st.new, current_md5, current_item)]

\* lines 149-156: final_all_md5_based
FinalDict_OnlySeen(old, new, upd) ==
    [k \in DOMAIN new \cup DOMAIN upd |->
        IF k \in DOMAIN upd THEN upd[k] ELSE new[k]]
FinalDict_WithoutNew(old, new, upd) ==
    [k \in DOMAIN old \cup DOMAIN upd |->
        IF k \in DOMAIN upd THEN upd[k] ELSE old[k]]
FinalDict(old, new, upd) ==
    [k \in DOMAIN old \cup DOMAIN new \cup DOMAIN upd |->
        IF k \in DOMAIN upd THEN upd[k]
        ELSE IF k \in DOMAIN new THEN new[k]
        ELSE old[k]]

\* lines 111-156 as one function of the fresh list and the file: the loop from
\* item i on, then the final dictionary
RECURSIVE MergeFrom(_, _, _)
MergeFrom(st, fresh, i) ==
    IF i > Len(fresh) \/ st.err # None THEN st
    ELSE MergeFrom(MergeItem(st, fresh[i]), fresh, i + 1)

RunMerge(fresh, file) ==
    LET st == MergeFrom([old |-> ReKey(file), new |-> EmptyDict,
                         upd |-> EmptyDict, err |-> None], fresh, 1)
    IN  [new |-> st.new, upd |-> st.upd, err |-> st.err,
         final |-> FinalDict(st.old, st.new, st.upd)]

\* lines 83-98: all_apartments from the gathered results
RECURSIVE Combine_AsCompleted(_, _)
Combine_AsCompleted(res, i) ==
    IF i > Len(finished) THEN <<>>
    ELSE LET name == finished[i]
             annotated == [j \in 1..Len(res[name]) |->
                              Annotate(res[name][j], type_name(name))]
         IN  annotated \o Combine_AsCompleted(res, i + 1)
RECURSIVE Combine(_, _)
Combine(res, i) ==
    IF i > Len(SCRAPER_REGISTRY) THEN <<>>
    ELSE LET name == SCRAPER_REGISTRY[i]
             annotated == [j \in 1..Len(res[name]) |->
                              Annotate(res[name][j], type_name(name))]
         IN  annotated \o Combine(res, i + 1)

RecInit ==
    /\ store \in InitStores
    /\ pc = "idle"
    /\ tasks = [a \in Adapters |-> "none"]
    /\ results = [a \in Adapters |-> <<>>]
    /\ all_apartments = <<>>
    /\ old_by_md5 = EmptyDict
    /\ new_items = EmptyDict
    /\ updated_items = EmptyDict
    /\ pos = 0
    /\ reads = 0
    /\ writes = 0

\* lines 63-75: one task per registered scraper (the bot calls again after a
\* pass that completed or failed)
StartScrapers ==
    /\ pc \in {"idle", "done", "failed"}
    /\ pc' = "gather"
    /\ tasks' = [a \in Adapters |-> "running"]
    /\ results' = [a \in Adapters |-> <<>>]
    /\ all_apartments' = <<>>
    /\ old_by_md5' = EmptyDict
    /\ new_items' = EmptyDict
    /\ updated_items' = EmptyDict
    /\ pos' = 0
    /\ reads' = 0
    /\ writes' = 0
    /\ UNCHANGED store
    /\ RecOnly

\* a scraper's run() returns its list
RunReturns(name) ==
    /\ pc = "gather" /\ tasks[name] = "running"
    /\ \E list \in RunsOf(name) : results' = [results EXCEPT ![name] = list]
    /\ tasks' = [tasks EXCEPT ![name] = "returned"]
    /\ UNCHANGED <<store, pc, all_apartments, old_by_md5, new_items, updated_items, pos,
                   reads, writes>>
    /\ RecOnly

\* a scraper's run() raises
RunRaises(name) ==
    /\ pc = "gather" /\ tasks[name] = "running"
    /\ tasks' = [tasks EXCEPT ![name] = "raised"]
    /\ UNCHANGED <<store, pc, results, all_apartments, old_by_md5, new_items,
                   updated_items, pos, reads, writes>>
    /\ RecOnly

\* line 78: gather re-raises the exception of a task; run_generic_scraper ends
GatherRaises ==
    /\ pc = "gather" /\ \E a \in Adapters : tasks[a] = "raised"
    /\ pc' = "failed"
    /\ UNCHANGED <<store, tasks, results, all_apartments, old_by_md5, new_items,
                   updated_items, pos, reads, writes>>
    /\ RecOnly

\* line 78: asyncio.gather gives back the results when every task returned
AllReturned_Any == \E a \in Adapters : tasks[a] = "returned"
AllReturned == \A a \in Adapters : tasks[a] = "returned"

\* lines 78-98: every task returned; type and md5 are set, the lists concatenated
CombineResults ==
    /\ pc = "gather" /\ AllReturned
    /\ all_apartments' = Combine(results, 1)
    /\ pc' = "read"
    /\ UNCHANGED <<store, tasks, results, old_by_md5, new_items, updated_items, pos,
                   reads, writes>>
    /\ RecOnly

\* lines 100-115: the file is read (json.load gives back what json.dump wrote:
\* the keys are strings) and re-keyed
ReadStore ==
    /\ pc = "read"
    /\ old_by_md5' = ReKey(store)
    /\ new_items' = EmptyDict
    /\ updated_items' = EmptyDict
    /\ pos' = 1
    /\ pc' = "merge"
    /\ reads' = reads + 1
    /\ UNCHANGED <<store, tasks, results, all_apartments, writes>>
    /\ RecOnly

\* lines 117-147: one iteration of the loop
MergeStep_Saving ==
    /\ pc = "merge" /\ pos <= Len(all_apartments)
    /\ LET st == MergeItem([old |-> old_by_md5, new |-> new_items,
                            upd |-> updated_items, err |-> None],
                           all_apartments[pos])
       IN  /\ old_by_md5' = st.old
           /\ new_items' = st.new
           /\ updated_items' = st.upd
           /\ store' = FinalDict(st.old, st.new, st.upd)
           /\ IF st.err = None
              THEN pos' = pos + 1 /\ pc' = "merge"
              ELSE pos' = pos /\ pc' = "failed"
    /\ writes' = writes + 1
    /\ UNCHANGED <<tasks, results, all_apartments, reads>>
    /\ RecOnly
MergeStep ==
    /\ pc = "merge" /\ pos <= Len(all_apartments)
    /\ LET st == MergeItem([old |-> old_by_md5, new |-> new_items,
                            upd |-> updated_items, err |-> None],
                           all_apartments[pos])
       IN  /\ old_by_md5' = st.old
           /\ new_items' = st.new
           /\ updated_items' = st.upd
           /\ IF st.err = None
              THEN pos' = pos + 1 /\ pc' = "merge"
              ELSE pos' = pos /\ pc' = "failed"
    /\ UNCHANGED <<store, tasks, results, all_apartments, reads, writes>>
    /\ RecOnly

\* lines 149-160: the final dictionary is built and written
SaveMerged ==
    /\ pc = "merge" /\ pos > Len(all_apartments)
    /\ store' = FinalDict(old_by_md5, new_items, updated_items)
    /\ pc' = "done"
    /\ writes' = writes + 1
    /\ UNCHANGED <<tasks, results, all_apartments, old_by_md5, new_items,
                   updated_items, pos, reads>>
    /\ RecOnly

RecNext ==
    \/ StartScrapers
    \/ \E name \in Adapters : RunReturns(name)
    \/ \E name \in Adapters : RunRaises(name)
    \/ GatherRaises
    \/ CombineResults
    \/ ReadStore
    \/ MergeStep
    \/ SaveMerged

RecIdle ==
    /\ store = EmptyDict /\ pc = "off" /\ tasks = EmptyDict /\ results = EmptyDict
    /\ all_apartments = <<>> /\ old_by_md5 = EmptyDict /\ new_items = EmptyDict
    /\ updated_items = EmptyDict /\ pos = 0 /\ reads = 0 /\ writes = 0

-----------------------------------------------------------------------------
(* One pass of run_generic_scraper with the page fetches of yad2 get_current *)
(* and the order in which the runs of the adapters return                    *)

\* yad2.get_current, lines 203-216: the numbers the pages of the city can have
PageNumbers == {1, 2, 3}

\* yad2._process_page: the processed private items one page can hold
PageItems == SeqUpTo({process_item(r) : r \in Yad2Feed}, 1)

\* a page whose _get_page_data has not returned
Pending == [rank |-> 0, items |-> <<>>]

\* the pages that were fetched
Arrived == {p \in DOMAIN pages : pages[p].rank > 0}

\* yad2.get_current, lines 210 and 221-222: current, extended with the items
\* of page 1 and then of the gathered pages, which asyncio.gather gives back
\* in the order of the page numbers
RECURSIVE current_from(_, _)
current_from(pgs, p) ==
    IF p > Len(pgs) THEN <<>> ELSE pgs[p].items \o current_from(pgs, p + 1)

OrdInit ==
    /\ RecInit
    /\ Cardinality(DOMAIN store) <= 1
    /\ pages = <<>>
    /\ finished = <<>>

\* yad2.get_current, lines 203-210: the first page tells the number of pages
Yad2FirstPage(items, page_count) ==
    /\ pc = "gather" /\ tasks["yad2"] = "running"
    /\ pages = <<>>
    /\ pages' = [p \in 1..page_count |->
                    IF p = 1 THEN [rank |-> 1, items |-> items] ELSE Pending]
    /\ UNCHANGED <<recVars, finished>>
    /\ OrdOnly

\* yad2.get_current, lines 216-220: one of the page fetches run by
\* asyncio.gather returns, in whatever order the responses come
Yad2PageArrives(page_number, items) ==
    /\ pc = "gather" /\ tasks["yad2"] = "running"
    /\ page_number \in DOMAIN pages
    /\ pages[page_number].rank = 0
    /\ Len(current_from(pages, 1)) + Len(items) <= MaxYad2Items
    /\ pages' = [pages EXCEPT ![page_number] =
                    [rank |-> Cardinality(Arrived) + 1, items |-> items]]
    /\ UNCHANGED <<recVars, finished>>
    /\ OrdOnly

\* yad2.get_current, lines 221-231, and run: every page is there, run()
\* returns current
Yad2Returns ==
    /\ pc = "gather" /\ tasks["yad2"] = "running"
    /\ pages # <<>> /\ Arrived = DOMAIN pages
    /\ results' = [results EXCEPT !["yad2"] = current_from(pages, 1)]
    /\ tasks' = [tasks EXCEPT !["yad2"] = "returned"]
    /\ finished' = Append(finished, "yad2")
    /\ UNCHANGED <<store, pc, all_apartments, old_by_md5, new_items, updated_items, pos,
                   reads, writes, pages>>
    /\ OrdOnly

\* the run() of the facebook adapter returns its list
FacebookReturns ==
    /\ pc = "gather" /\ tasks["facebook"] = "running"
    /\ \E list \in RunsOf("facebook") : results' = [results EXCEPT !["facebook"] = list]
    /\ tasks' = [tasks EXCEPT !["facebook"] = "returned"]
    /\ finished' = Append(finished, "facebook")
    /\ UNCHANGED <<store, pc, all_apartments, old_by_md5, new_items, updated_items, pos,
                   reads, writes, pages>>
    /\ OrdOnly

OrdNext ==
    \/ pc = "idle" /\ StartScrapers
    \/ \E items \in PageItems : \E page_count \in PageNumbers :
          Yad2FirstPage(items, page_count)
    \/ \E page_number \in PageNumbers : \E items \in PageItems :
          Yad2PageArrives(page_number, items)
    \/ Yad2Returns
    \/ FacebookReturns
    \/ \E name \in Adapters : RunRaises(name)
    \/ GatherRaises
    \/ CombineResults
    \/ ReadStore
    \/ MergeStep
    \/ SaveMerged

OrdIdle == pages = <<>> /\ finished = <<>>

-----------------------------------------------------------------------------
(* facebook.py: the payload locator *)

\* isinstance(x, list) and len(x) >= n
ListAtLeast(x, n) == x.t = "list" /\ Len(x.items) >= n

\* the chain of .get from the data object of an entry down to the field
Descend(potential_data_obj, field) ==
    ThenGet(ThenGet(ThenGet(ThenGet(DictGet(potential_data_obj, "__bbox"),
                                    "result"), "data"), "viewer"), field)

NotFound == [k |-> "none"]

\* the loop over inner_require_list: the field of the first entry whose key
\* starts with the prefix and whose field is truthy
RECURSIVE SearchInner_UntilRecords(_, _, _)
SearchInner_UntilRecords(inner_require_list, key_prefix, field) ==
    IF inner_require_list = <<>> THEN NotFound
    ELSE LET inner_item == Head(inner_require_list)
         IN  IF /\ ListAtLeast(inner_item, 4)
                /\ ListAtLeast(inner_item.items[4], 2)
                /\ inner_item.items[4].items[1].t = "str"
                /\ StartsWith(inner_item.items[4].items[1], key_prefix)
             THEN LET target == Descend(inner_item.items[4].items[2], field)
                  IN  IF target.k = "raise" THEN target
                      ELSE IF /\ Truthy(target.v)
                              /\ target.v.t = "dict"
                              /\ "edges" \in DOMAIN target.v.map
                              /\ Truthy(target.v.map["edges"])
                           THEN target
                      ELSE SearchInner_UntilRecords(Tail(inner_require_list),
                                                    key_prefix, field)
             ELSE SearchInner_UntilRecords(Tail(inner_require_list), key_prefix, field)
RECURSIVE SearchInner(_, _, _)
SearchInner(inner_require_list, key_prefix, field) ==
    IF inner_require_list = <<>> THEN NotFound
    ELSE LET inner_item == Head(inner_require_list)
         IN  IF /\ ListAtLeast(inner_item, 4)
                /\ ListAtLeast(inner_item.items[4], 2)
                /\ inner_item.items[4].items[1].t = "str"
                /\ StartsWith(inner_item.items[4].items[1], key_prefix)
             THEN LET target == Descend(inner_item.items[4].items[2], field)
                  IN  IF target.k = "raise" THEN target
                      ELSE IF Truthy(target.v) THEN target
                      ELSE SearchInner(Tail(inner_require_list), key_prefix, field)
             ELSE SearchInner(Tail(inner_require_list), key_prefix, field)

\* the loop over parsed_json['require']
RECURSIVE SearchOuter(_, _, _)
SearchOuter(require, key_prefix, field) ==
    IF require = <<>> THEN NotFound
    ELSE LET item == Head(require)
         IN  IF /\ ListAtLeast(item, 4)
                /\ ListAtLeast(item.items[4], 1)
                /\ item.items[4].items[1].t = "dict"
                /\ "__bbox" \in DOMAIN item.items[4].items[1].map
                /\ item.items[4].items[1].map["__bbox"].t = "dict"
                /\ "require" \in DOMAIN item.items[4].items[1].map["__bbox"].map
             THEN LET inner == Iterate(item.items[4].items[1].map["__bbox"].map["require"])
                      found == SearchInner(inner.v, key_prefix, field)
                  IN  IF inner.k = "raise" THEN inner
                      ELSE IF found.k # "none" THEN found
                      ELSE SearchOuter(Tail(require), key_prefix, field)
             ELSE SearchOuter(Tail(require), key_prefix, field)

\* the two nested loops of find_rental_data_in_blob / find_details_data_in_blob
SearchBlob(parsed_json, key_prefix, field) ==
    IF parsed_json.t # "dict" THEN Raise("AttributeError")
    ELSE IF "require" \notin DOMAIN parsed_json.map THEN NotFound
    ELSE LET require == Iterate(parsed_json.map["require"])
         IN  IF require.k = "raise" THEN require
             ELSE SearchOuter(require.v, key_prefix, field)

\* FacebookMarketplaceScraper.find_rental_data_in_blob
find_rental_data_in_blob(parsed_json) ==
    LET stories_data ==
            SearchBlob(parsed_json, JSON_KEY_PREFIX_LISTINGS,
                       "marketplace_rentals_map_view_stories")
    IN  IF stories_data.k = "raise" THEN stories_data
        ELSE IF stories_data.k = "none" THEN Val(JEmptyList)
        ELSE IF stories_data.v.t # "dict" THEN Raise("AttributeError")
        ELSE IF "edges" \in DOMAIN stories_data.v.map
             THEN Val(stories_data.v.map["edges"])
             ELSE Val(JEmptyList)

\* FacebookMarketplaceScraper.find_details_data_in_blob
find_details_data_in_blob(parsed_json) ==
    LET product_details ==
            SearchBlob(parsed_json, JSON_KEY_PREFIX_DETAILS,
                       "marketplace_product_details_page")
    IN  IF product_details.k = "none" THEN Val(JNull) ELSE product_details

\* a script string: the serialization of a JSON value, or text json.loads rejects
Dumps(v) == [ok |-> TRUE, v |-> v]
MalformedScript == [ok |-> FALSE]

\* json.loads
json_loads_lenient(json_str) ==
    IF json_str.ok THEN Val(json_str.v) ELSE Val(JEmptyDict)

json_loads(json_str) ==
    IF json_str.ok THEN Val(json_str.v) ELSE Raise("JSONDecodeError")

\* what a call of the locator ends with: the value it returns or the
\* exception it raises, and the number of candidates it passed to json.loads
Returned(v, n) == [k |-> "val", v |-> v, loaded |-> n]
Raised(exc, message, n) == [k |-> "raise", exc |-> exc, message |-> message, loaded |-> n]

\* the parts of the ValueError messages
ListingsNotFoundMessage ==
    <<"Failed to find '", "marketplace_rentals_map_view_stories",
      "' in any JSON script.">>
DetailsNotFoundMessage(apartment_id) ==
    <<"Failed to find detailed data on share_uri page for apartment ID ",
      apartment_id, ".">>

\* for edge in rental_edges: apartments.append(self.parse_rental_info(edge))
RECURSIVE ParseEdges(_)
ParseEdges(edges) ==
    IF edges = <<>> THEN Val(<<>>)
    ELSE LET apartment_info == parse_rental_info(Head(edges))
             rest == ParseEdges(Tail(edges))
         IN  IF apartment_info.k = "raise" THEN apartment_info
             ELSE IF rest.k = "raise" THEN rest
             ELSE Val(<<apartment_info.v>> \o rest.v)


\* a loop that gives up after the candidate it starts at
ScanListings_FirstOnly(json_script_strs, i) ==
    LET parsed_json == json_loads(json_script_strs[i])
        rental_edges == find_rental_data_in_blob(parsed_json.v)
        apartments == ParseEdges(rental_edges.v.items)
    IN  IF parsed_json.k = "raise" THEN Raised(parsed_json.exc, <<>>, i)
        ELSE IF rental_edges.k = "raise" THEN Raised(rental_edges.exc, <<>>, i)
        ELSE IF ~Truthy(rental_edges.v) \/ rental_edges.v.t # "list"
                \/ apartments.k = "raise"
             THEN [k |-> "end", found_data |-> FALSE, apartments |-> <<>>, loaded |-> i]
             ELSE [k |-> "end", found_data |-> TRUE, apartments |-> apartments.v,
                   loaded |-> i]

\* the loop of process_json_scripts from candidate i on
\* the loop of process_json_scripts, had it deserialized every candidate
\* before inspecting the first
RECURSIVE ScanListings_Eager(_, _)
ScanListings_Eager(json_script_strs, i) ==
    IF \E h \in DOMAIN json_script_strs : json_loads(json_script_strs[h]).k = "raise"
    THEN Raised("JSONDecodeError", <<>>,
                CHOOSE h \in DOMAIN json_script_strs :
                    /\ json_loads(json_script_strs[h]).k = "raise"
                    /\ \A g \in 1..(h - 1) : json_loads(json_script_strs[g]).k # "raise")
    ELSE IF i > Len(json_script_strs)
    THEN [k |-> "end", found_data |-> FALSE, apartments |-> <<>>,
          loaded |-> Len(json_script_strs)]
    ELSE LET parsed_json == json_loads(json_script_strs[i])
             rental_edges == find_rental_data_in_blob(parsed_json.v)
             apartments == ParseEdges(rental_edges.v.items)
         IN  IF rental_edges.k = "raise"
             THEN Raised(rental_edges.exc, <<>>, Len(json_script_strs))
             ELSE IF ~Truthy(rental_edges.v) THEN ScanListings_Eager(json_script_strs, i + 1)
             ELSE IF rental_edges.v.t = "num"
                  THEN Raised("TypeError", <<>>, Len(json_script_strs))
             ELSE IF rental_edges.v.t # "list"
                  THEN Raised("AttributeError", <<>>, Len(json_script_strs))
             ELSE IF apartments.k = "raise"
                  THEN Raised(apartments.exc, <<>>, Len(json_script_strs))
             ELSE [k |-> "end", found_data |-> TRUE, apartments |-> apartments.v,
                   loaded |-> Len(json_script_strs)]

RECURSIVE ScanListings(_, _)
ScanListings(json_script_strs, i) ==
    IF i > Len(json_script_strs)
    THEN [k |-> "end", found_data |-> FALSE, apartments |-> <<>>,
          loaded |-> Len(json_script_strs)]
    ELSE LET parsed_json == json_loads(json_script_strs[i])
             rental_edges == find_rental_data_in_blob(parsed_json.v)
             apartments == ParseEdges(rental_edges.v.items)
         IN  IF parsed_json.k = "raise" THEN Raised(parsed_json.exc, <<>>, i)
             ELSE IF rental_edges.k = "raise" THEN Raised(rental_edges.exc, <<>>, i)
             ELSE IF ~Truthy(rental_edges.v) THEN ScanListings(json_script_strs, i + 1)
             ELSE IF rental_edges.v.t = "num" THEN Raised("TypeError", <<>>, i)
             ELSE IF rental_edges.v.t # "list" THEN Raised("AttributeError", <<>>, i)
             ELSE IF apartments.k = "raise" THEN Raised(apartments.exc, <<>>, i)
             ELSE [k |-> "end", found_data |-> TRUE, apartments |-> apartments.v,
                   loaded |-> i]

\* FacebookMarketplaceScraper.process_json_scripts
process_json_scripts(json_script_strs) ==
    LET scan == ScanListings(json_script_strs, 1)
    IN  IF scan.k = "raise" THEN scan
        ELSE IF ~scan.found_data
             THEN Raised("ValueError", ListingsNotFoundMessage, scan.loaded)
             ELSE Returned(scan.apartments, scan.loaded)

\* the loop of fetch_and_parse_details from candidate i on
RECURSIVE ScanDetails(_, _)
ScanDetails(json_script_strs, i) ==
    IF i > Len(json_script_strs)
    THEN [k |-> "end", details_data |-> JNull, loaded |-> Len(json_script_strs)]
    ELSE LET parsed_json == json_loads(json_script_strs[i])
             details_data == find_details_data_in_blob(parsed_json.v)
         IN  IF parsed_json.k = "raise" THEN Raised(parsed_json.exc, <<>>, i)
             ELSE IF details_data.k = "raise" THEN Raised(details_data.exc, <<>>, i)
             ELSE IF Truthy(details_data.v)
                  THEN [k |-> "end", details_data |-> details_data.v, loaded |-> i]
                  ELSE ScanDetails(json_script_strs, i + 1)

\* FacebookMarketplaceScraper.fetch_and_parse_details, lines 409-427
locate_details(json_script_strs, apartment_id) ==
    LET scan == ScanDetails(json_script_strs, 1)
    IN  IF scan.k = "raise" THEN scan
        ELSE IF ~Truthy(scan.details_data)
             THEN Raised("ValueError", DetailsNotFoundMessage(apartment_id), scan.loaded)
             ELSE Returned(scan.details_data, scan.loaded)

(* The scripts a fetched page can carry *)

\* one entry of an inner manifest: [module, method, dependencies, [key, data]]
InnerEntry(key, data_obj) ==
    JList(<<JStr(<<"RelayPrefetchedStreamCache">>), JStr(<<"next">>), JEmptyList,
            JList(<<key, data_obj>>)>>)

\* a script whose manifest holds the inner entries
Blob(inner_entries) ==
    JDict("require" :> JList(<<
        JList(<<JStr(<<"ScheduledServerJS">>), JStr(<<"handle">>), JNull,
                JList(<<JDict("__bbox" :> JDict("require" :> JList(inner_entries)))>>)
              >>)>>))

\* the data object under which the viewer holds the value of a field
DataObject(field, value) ==
    JDict("__bbox" :> JDict("result" :> JDict("data" :> JDict("viewer" :>
        JDict(field :> value)))))

ListingsKey == JStr(<<JSON_KEY_PREFIX_LISTINGS, "8317">>)
DetailsKey == JStr(<<JSON_KEY_PREFIX_DETAILS, "2290">>)
OtherKey == JStr(<<"adp_CometMarketplaceSearchQueryRelayPreloader_", "51">>)

\* the listing payload with the edges of the raw items
ListingsData(raws) ==
    DataObject("marketplace_rentals_map_view_stories",
               JDict("edges" :> JList([i \in DOMAIN raws |-> EdgeOf(raws[i])])))

\* the detail payload of a raw item
DetailsData(raw) ==
    DataObject("marketplace_product_details_page", DetailsOf(raw))

RawA == [id |-> "A", formatted_price |-> "ILS 5000", share_uri |-> SHARE_URI("A"),
         city |-> "Tel Aviv", street |-> "Herzl"]
RawB == [id |-> "B", formatted_price |-> "ILS 6000", share_uri |-> SHARE_URI("B"),
         city |-> "Tel Aviv", street |-> ""]

ListingsScript(raws) == Dumps(Blob(<<InnerEntry(ListingsKey, ListingsData(raws))>>))
DetailsScript(raw) == Dumps(Blob(<<InnerEntry(DetailsKey, DetailsData(raw))>>))

\* well-formed scripts without an entry under either prefix
PlainScripts ==
    {Dumps(JEmptyDict),
     Dumps(Blob(<<>>)),
     Dumps(Blob(<<InnerEntry(OtherKey, ListingsData(<<RawB>>))>>)),
     Dumps(JDict("require" :> JList(<<JStr(<<"qplTimingsServerJS">>), JNull>>)))}

\* the raw items of the listing pages
ListingsPages == {<<RawA>>, <<RawB, RawA>>}

\* scripts that hold the payload of a page
ListingsPayloads == {ListingsScript(raws) : raws \in ListingsPages}
DetailsPayloads == {DetailsScript(RawA), DetailsScript(RawB)}
PayloadScripts == ListingsPayloads \cup DetailsPayloads

\* scripts with an entry under a prefix whose descent does not reach records
HollowScripts(key, field) ==
    {Dumps(Blob(<<InnerEntry(key, JDict("__bbox" :> JDict("result" :> JEmptyDict)))>>)),
     Dumps(Blob(<<InnerEntry(key, DataObject(field, JDict("page_info" :> JNull))),
                  InnerEntry(key, IF field = "marketplace_rentals_map_view_stories"
                                  THEN ListingsData(<<RawA>>) ELSE DetailsData(RawA))>>)),
     Dumps(Blob(<<InnerEntry(key, DataObject(field, JDict("edges" :> JEmptyList))),
                  InnerEntry(key, IF field = "marketplace_rentals_map_view_stories"
                                  THEN ListingsData(<<RawA>>) ELSE DetailsData(RawA))>>))}

\* entries under a key whose data objects lack, one after the other, each
\* key of the descent: __bbox, result, data, viewer and the target field
KeylessEntries(key) ==
    <<InnerEntry(key, JEmptyDict),
      InnerEntry(key, JDict("__bbox" :> JEmptyDict)),
      InnerEntry(key, JDict("__bbox" :> JDict("result" :> JEmptyDict))),
      InnerEntry(key, JDict("__bbox" :> JDict("result" :> JDict("data" :> JEmptyDict)))),
      InnerEntry(key, JDict("__bbox" :> JDict("result" :> JDict("data" :>
                                JDict("viewer" :> JEmptyDict)))))>>

\* a script with these entries only, and one where the payload of the first
\* raw item follows them
KeylessScript(key) == Dumps(Blob(KeylessEntries(key)))
KeylessThenPayload(key, field) ==
    Dumps(Blob(KeylessEntries(key)
               \o <<InnerEntry(key, IF field = "marketplace_rentals_map_view_stories"
                                    THEN ListingsData(<<RawA>>) ELSE DetailsData(RawA))>>))
KeylessScripts(key, field) == {KeylessScript(key), KeylessThenPayload(key, field)}

\* scripts that deserialize to another shape than the walk reads
OddScripts(key) ==
    {Dumps(JEmptyList),
     Dumps(JDict("require" :> JNull)),
     Dumps(Blob(<<InnerEntry(key, JNull)>>)),
     Dumps(Blob(<<InnerEntry(key, JDict("__bbox" :> JList(<<JStr(<<"x">>)>>)))>>))}

ScriptCatalogue ==
    {MalformedScript} \cup PlainScripts \cup PayloadScripts
    \cup HollowScripts(ListingsKey, "marketplace_rentals_map_view_stories")
    \cup HollowScripts(DetailsKey, "marketplace_product_details_page")
    \cup OddScripts(ListingsKey) \cup OddScripts(DetailsKey)
    \cup KeylessScripts(ListingsKey, "marketplace_rentals_map_view_stories")
    \cup KeylessScripts(DetailsKey, "marketplace_product_details_page")

(* The locator applied to the scripts of a page *)

MaxScripts == 3

\* extract_json_script_content returns at least one script or raises
ScriptLists == {l \in SeqUpTo(ScriptCatalogue, MaxScripts) : l # <<>>}

LocApartmentId == "A"

\* the well-formed scripts without an entry under the listing prefix
NoListingsEntry ==
    PlainScripts \cup DetailsPayloads
    \cup HollowScripts(DetailsKey, "marketplace_product_details_page")

\* the well-formed scripts without an entry under the detail prefix
NoDetailsEntry ==
    PlainScripts \cup ListingsPayloads
    \cup HollowScripts(ListingsKey, "marketplace_rentals_map_view_stories")

\* the listing records of a page, in the order of its edges
Records(raws) ==
    [i \in DOMAIN raws |->
        [id |-> raws[i].id, price |-> numeric_price(raws[i].formatted_price),
         formatted_price |-> raws[i].formatted_price,
         share_uri |-> raws[i].share_uri]]

LocInit ==
    /\ loc_scripts \in ScriptLists
    /\ loc_called = "none"
    /\ loc_result = [k |-> "pending"]

\* run, line 500: apartments = self.process_json_scripts(loc_scripts)
ProcessJsonScripts ==
    /\ loc_called = "none"
    /\ loc_called' = "process_json_scripts"
    /\ loc_result' = process_json_scripts(loc_scripts)
    /\ UNCHANGED loc_scripts
    /\ LocOnly

\* fetch_and_parse_details, lines 409-427, on the scripts of a share_uri page
LocateDetails ==
    /\ loc_called = "none"
    /\ loc_called' = "fetch_and_parse_details"
    /\ loc_result' = locate_details(loc_scripts, LocApartmentId)
    /\ UNCHANGED loc_scripts
    /\ LocOnly

LocIdle ==
    /\ loc_scripts = <<>>
    /\ loc_called = "none"
    /\ loc_result = [k |-> "pending"]

-----------------------------------------------------------------------------
(* facebook.py: enrichment of the listings with the details of their pages *)

MaxListings == 3    \* listings on the listing page
BATCH_SIZE == 2     \* scaled down, so that the listings fill more than one batch
max_retries == 2

\* the listings parse_rental_info can hand to the enrichment: the n-th has the
\* n-th id, and a share_uri, the 'N/A' of an item without one, or the null or
\* the empty string the item holds
ListingIds == <<"A", "B", "C", "D">>
UriChoices == {"own", NA, "", None}
EnListings(n) ==
    {[i \in 1..n |->
        [id |-> ListingIds[i], price |-> "5000", formatted_price |-> "ILS 5000",
         share_uri |-> IF u[i] = "own" THEN SHARE_URI(ListingIds[i]) ELSE u[i]]] :
     u \in [1..n -> UriChoices]}

\* the raw item behind a share_uri: its address tells the listings apart
RawOf(id) ==
    [id |-> id, formatted_price |-> "ILS 5000", share_uri |-> SHARE_URI(id),
     city |-> "Tel Aviv", street |-> "Herzl " \o id]

\* what one fetch of a share_uri can end with: an exception of the session,
\* a status that is not 200, or one of the pages a 200 can carry
FetchErrors == {"timeout", "denied", "rate_limited", "bad_status", "connection_error"}
PageKinds == {"payload", "payload_second", "no_payload", "malformed_script",
              "no_scripts", "bad_target"}
FetchOutcomes == FetchErrors \cup PageKinds

\* the scripts of the page of each kind, for the listing with the id
PageScripts(kind, id) ==
    IF kind = "payload" THEN <<DetailsScript(RawOf(id))>>
    ELSE IF kind = "payload_second" THEN <<Dumps(Blob(<<>>)), DetailsScript(RawOf(id))>>
    ELSE IF kind = "no_payload" THEN <<Dumps(Blob(<<>>))>>
    ELSE IF kind = "malformed_script" THEN <<MalformedScript, DetailsScript(RawOf(id))>>
    ELSE IF kind = "bad_target"
         THEN <<Dumps(Blob(<<InnerEntry(DetailsKey,
                    DataObject("marketplace_product_details_page",
                               JDict("target" :> JNull)))>>))>>
    ELSE <<>>

\* FacebookMarketplaceScraper.extract_json_script_content
extract_json_script_content(scripts) ==
    IF scripts # <<>> THEN Val(scripts) ELSE Raise("ValueError")

\* fetch_and_parse_details, lines 404-429: from the fetched page to the details
parse_details(scripts, apartment_id) ==
    LET json_script_strs == extract_json_script_content(scripts)
        details_data == locate_details(json_script_strs.v, apartment_id)
        additional_details == extract_additional_details(details_data.v)
    IN  IF json_script_strs.k = "raise" THEN json_script_strs
        ELSE IF details_data.k = "raise" THEN Raise(details_data.exc)
        ELSE additional_details

\* parse_details of the page of each kind for the listing with each id (the
\* result depends on nothing else)
ParsedPages ==
    [kind \in PageKinds |->
        [id \in {ListingIds[i] : i \in DOMAIN ListingIds} |->
            parse_details(PageScripts(kind, id), id)]]

\* fetch_html_from_share_uri: the exception a fetch that returns no page raises
FetchException(outcome) ==
    IF outcome = "timeout" THEN "TimeoutError"
    ELSE IF outcome = "connection_error" THEN "ClientConnectionError"
    ELSE "ClientResponseError"

\* fetch_html_from_share_uri_with_retry, line 278
may_retry_Once_More(attempt) == attempt < max_retries + 1
may_retry(attempt) == attempt < max_retries

\* a task of the TaskGroup
NoTask == [st |-> "none", attempt |-> 0, got |-> "none", exc |-> None, index |-> 0]
Finished == {"done", "failed", "cancelled"}

\* the indices of the batch that starts at i
BatchIndices(i, n) == {j \in 1..n : i <= j /\ j < i + BATCH_SIZE}

\* enrich_apartments_with_details, lines 440-441: batch_indices, the index
\* handed to the task of each position of the batch that starts at i
batch_indices_Local(i, n) ==
    [p \in 1..(IF i + BATCH_SIZE <= n + 1 THEN BATCH_SIZE ELSE n + 1 - i) |-> p]
batch_indices(i, n) ==
    [p \in 1..(IF i + BATCH_SIZE <= n + 1 THEN BATCH_SIZE ELSE n + 1 - i) |-> i + p - 1]

\* enrich_apartments_with_details, line 438: where the batch after the one
\* that starts at i starts
next_i_Overlapping(i) == i + BATCH_SIZE - 1
next_i(i) == i + BATCH_SIZE

\* enrich_apartments_with_details, line 438: the starts of the batches of a
\* list of n listings, from i on
RECURSIVE batch_starts(_, _)
batch_starts(i, n) == IF i > n THEN {} ELSE {i} \cup batch_starts(next_i(i), n)

\* what can make run() raise before the enrichment: a fetch error of the
\* listing page, or a page process_json_scripts finds no listings in
EarlyFailures == FetchErrors \cup {"no_listings"}

\* run() is called
EnInit ==
    /\ en_apartments = <<>>
    /\ en_pc = "start"
    /\ en_i = 1
    /\ en_tasks = <<>>
    /\ en_page = "none"

\* run, lines 492-503: the listing page is fetched and parsed, and
\* enrich_apartments_with_details is called on its listings
RunFetchesListings ==
    /\ en_pc = "start"
    /\ en_page' = "ok"
    /\ \E apartments \in UNION {EnListings(n) : n \in 0..MaxListings} :
          /\ en_apartments' = apartments
          /\ en_tasks' = [j \in DOMAIN apartments |-> NoTask]
    /\ en_pc' = "called"
    /\ UNCHANGED en_i
    /\ EnOnly

\* run, lines 495-500: fetch_html or process_json_scripts raises, and the
\* exception leaves run()
RunRaisesEarly(outcome) ==
    /\ en_pc = "start"
    /\ outcome \in EarlyFailures
    /\ en_page' = outcome
    /\ en_pc' = "raised"
    /\ UNCHANGED <<en_apartments, en_i, en_tasks>>
    /\ EnOnly

InBatch(j) == j \in BatchIndices(en_i, Len(en_apartments))

\* every task of the batch has run up to its first await
AllStarted == \A j \in DOMAIN en_tasks : InBatch(j) => en_tasks[j].st # "created"

\* enrich_apartments_with_details, lines 438-449: the tasks of the next
\* batch, the task of the listing at position j of the list being the one
\* created for position j - en_i + 1 of the batch
CreateBatchTasks ==
    /\ en_pc = "called"
    /\ en_i <= Len(en_apartments)
    /\ en_pc' = "batch"
    /\ en_tasks' = [j \in DOMAIN en_tasks |->
                      IF InBatch(j)
                      THEN [NoTask EXCEPT
                              !.st = "created",
                              !.index = batch_indices(en_i, Len(en_apartments))[j - en_i + 1]]
                      ELSE en_tasks[j]]
    /\ UNCHANGED <<en_apartments, en_i>>
    /\ UNCHANGED en_page
    /\ EnOnly

\* fetch_and_parse_details, line 391: not share_uri or share_uri == 'N/A'
no_share_uri_OnlyEmpty(share_uri) == share_uri \in {"", None}
no_share_uri(share_uri) == share_uri \in {"", None, NA}

\* fetch_and_parse_details, lines 389-394: no share_uri, the task returns {}
TaskSkips(j) ==
    /\ en_pc = "batch"
    /\ en_tasks[j].st = "created"
    /\ no_share_uri(en_apartments[j].share_uri)
    /\ en_tasks' = [en_tasks EXCEPT ![j].st = "done"]
    /\ UNCHANGED <<en_apartments, en_pc, en_i>>
    /\ UNCHANGED en_page
    /\ EnOnly

\* fetch_and_parse_details, lines 396-400: the task sleeps its delay
TaskDelays(j) ==
    /\ en_pc = "batch"
    /\ en_tasks[j].st = "created"
    /\ ~no_share_uri(en_apartments[j].share_uri)
    /\ en_tasks' = [en_tasks EXCEPT ![j].st = "delay"]
    /\ UNCHANGED <<en_apartments, en_pc, en_i>>
    /\ UNCHANGED en_page
    /\ EnOnly

\* the delay or the backoff of a task is over: the next fetch attempt starts
SleepElapses(j) ==
    /\ en_pc = "batch"
    /\ AllStarted
    /\ en_tasks[j].st \in {"delay", "backoff"}
    /\ en_tasks' = [en_tasks EXCEPT ![j].st = "fetch"]
    /\ UNCHANGED <<en_apartments, en_pc, en_i>>
    /\ UNCHANGED en_page
    /\ EnOnly

\* the tasks of the batch after task j raised: the TaskGroup cancels the
\* tasks that have not finished, which are all waiting in a sleep or a fetch
AfterFailure_NoCancel(j, outcome, exc) ==
    [en_tasks EXCEPT ![j].st = "failed", ![j].got = outcome, ![j].exc = exc]
AfterFailure(j, outcome, exc) ==
    [h \in DOMAIN en_tasks |->
        IF h = j THEN [en_tasks[j] EXCEPT !.st = "failed", !.got = outcome, !.exc = exc]
        ELSE IF InBatch(h) /\ en_tasks[h].st \notin Finished
             THEN [en_tasks[h] EXCEPT !.st = "cancelled"]
             ELSE en_tasks[h]]

\* fetch_html_from_share_uri_with_retry, lines 276-282: an attempt times out
\* and the task sleeps the backoff
FetchTimesOut(j) ==
    /\ en_pc = "batch"
    /\ AllStarted
    /\ en_tasks[j].st = "fetch"
    /\ may_retry(en_tasks[j].attempt)
    /\ en_tasks' = [en_tasks EXCEPT ![j].st = "backoff",
                                    ![j].attempt = en_tasks[j].attempt + 1,
                                    ![j].got = "timeout"]
    /\ UNCHANGED <<en_apartments, en_pc, en_i>>
    /\ UNCHANGED en_page
    /\ EnOnly

\* fetch_html_from_share_uri raises and the exception leaves the task: the
\* last timeout (lines 283-286) or an exception the retry loop does not catch
FetchRaises(j, outcome) ==
    /\ en_pc = "batch"
    /\ AllStarted
    /\ en_tasks[j].st = "fetch"
    /\ outcome \in FetchErrors
    /\ outcome = "timeout" => ~may_retry(en_tasks[j].attempt)
    /\ en_tasks' = AfterFailure(j, outcome, FetchException(outcome))
    /\ UNCHANGED <<en_apartments, en_pc, en_i>>
    /\ UNCHANGED en_page
    /\ EnOnly

\* the fetch returns a page: fetch_and_parse_details, lines 404-434
FetchReturns(j, kind) ==
    /\ en_pc = "batch"
    /\ AllStarted
    /\ en_tasks[j].st = "fetch"
    /\ kind \in PageKinds
    /\ \E additional_details \in {ParsedPages[kind][en_apartments[j].id]} :
           IF additional_details.k = "raise"
           THEN /\ en_tasks' = AfterFailure(j, kind, additional_details.exc)
                /\ UNCHANGED en_apartments
           ELSE /\ en_tasks' = [en_tasks EXCEPT ![j].st = "done", ![j].got = kind]
                /\ \E index \in {en_tasks[j].index} :
                      en_apartments' = [en_apartments EXCEPT
                          ![index] = Update(en_apartments[index], additional_details.v)]
    /\ UNCHANGED <<en_pc, en_i>>
    /\ UNCHANGED en_page
    /\ EnOnly

BatchFinished_Any == \E j \in DOMAIN en_tasks : InBatch(j) /\ en_tasks[j].st \in Finished
BatchFinished == \A j \in DOMAIN en_tasks : InBatch(j) => en_tasks[j].st \in Finished
BatchFailed_TimeoutsOnly ==
    \E j \in DOMAIN en_tasks :
        InBatch(j) /\ en_tasks[j].st = "failed" /\ en_tasks[j].got = "timeout"
BatchFailed == \E j \in DOMAIN en_tasks : InBatch(j) /\ en_tasks[j].st = "failed"

\* the TaskGroup exits without an exception: the loop goes on to the next batch
BatchCompletes ==
    /\ en_pc = "batch"
    /\ BatchFinished /\ ~BatchFailed
    /\ en_i' = next_i(en_i)
    /\ en_pc' = "called"
    /\ UNCHANGED <<en_apartments, en_tasks>>
    /\ UNCHANGED en_page
    /\ EnOnly

\* the TaskGroup exits with the exceptions of its tasks, which leave
\* enrich_apartments_with_details and run
BatchRaises ==
    /\ en_pc = "batch"
    /\ BatchFinished /\ BatchFailed
    /\ en_pc' = "raised"
    /\ UNCHANGED <<en_apartments, en_tasks, en_i>>
    /\ UNCHANGED en_page
    /\ EnOnly

\* enrich_apartments_with_details returns after the last batch
EnrichReturns ==
    /\ en_pc = "called"
    /\ en_i > Len(en_apartments)
    /\ en_pc' = "returned"
    /\ UNCHANGED <<en_apartments, en_tasks, en_i>>
    /\ UNCHANGED en_page
    /\ EnOnly

EnNext ==
    \/ RunFetchesListings
    \/ \E outcome \in EarlyFailures : RunRaisesEarly(outcome)
    \/ CreateBatchTasks
    \/ \E j \in DOMAIN en_tasks : TaskSkips(j)
    \/ \E j \in DOMAIN en_tasks : TaskDelays(j)
    \/ \E j \in DOMAIN en_tasks : SleepElapses(j)
    \/ \E j \in DOMAIN en_tasks : FetchTimesOut(j)
    \/ \E j \in DOMAIN en_tasks : \E outcome \in FetchErrors : FetchRaises(j, outcome)
    \/ \E j \in DOMAIN en_tasks : \E kind \in PageKinds : FetchReturns(j, kind)
    \/ BatchCompletes
    \/ BatchRaises
    \/ EnrichReturns

EnIdle ==
    /\ en_apartments = <<>>
    /\ en_pc = "off"
    /\ en_i = 1
    /\ en_tasks = <<>>
    /\ en_page = "none"

-----------------------------------------------------------------------------
(* telegram_bot.py: the scraping cycles of the bot *)

MaxBotStore == 1   \* records in merged_apartments.json when the bot starts
MaxBotFresh == 2   \* listings the adapters return in one cycle of the bot
MaxCycles == 2     \* iterations of the loop of run_polling

\* the chat ids a subscriber can have
Chats == {1}

\* the chats that send commands and press buttons
CommandChats == {1, 2}

\* the file the bot process finds when it starts
BotInitStores == {f \in InitStores : Cardinality(DOMAIN f) <= MaxBotStore}

\* all_apartments of one run_generic_scraper whose adapters all returned
FreshLists ==
    {l \in {Combine([a \in Adapters |-> IF a = "yad2" THEN y ELSE f], 1) :
                y \in Yad2Runs, f \in FacebookRuns} : Len(l) <= MaxBotFresh}

\* run_scraping_cycle, lines 426-427: the items whose md5 the bot does not know
BotNew_All(current_by_md5, known) ==
    {current_by_md5[md5] : md5 \in DOMAIN current_by_md5}
BotNew(current_by_md5, known) ==
    {current_by_md5[md5] : md5 \in DOMAIN current_by_md5 \ DOMAIN known}

\* lines 428-429: the items the bot knows under another id
BotUpdated(current_by_md5, known) ==
    {current_by_md5[md5] : md5 \in
        {k \in DOMAIN current_by_md5 \cap DOMAIN known :
            current_by_md5[k].id # known[k].id}}

\* what application.bot.send_message can do in send_message_to_chat
SendOutcomes == {"ok", "flood_then_ok", "flood_then_error", "blocked",
                 "chat_not_found", "error"}
Delivered == {"ok", "flood_then_ok"}
Removing == {"blocked", "chat_not_found"}

\* load_subscribers, lines 43-62: the set of the list in the file, or set()
load_subscribers(file) == IF file = {} THEN {} ELSE CHOOSE chats \in file : TRUE

\* save_subscribers, lines 64-71: the file holds list(self.subscribed_chats)
save_subscribers(chats) == {chats}

\* a step that does not call save_subscribers
NoSave == subs_saved' = FALSE /\ last_cmd' = {} /\ UNCHANGED <<subs_file, last_action>>

\* a step that does not compare the file with the known apartments
NoCompare == UNCHANGED <<bot_loaded, bot_announced>>

\* the bot is between two cycles (asleep in run_polling)
BetweenCycles == bot_pc \in {"started", "completed", "adapter_raised", "merge_raised"}

\* __init__ (lines 37-41): the subscribers and the known apartments are loaded
BotStart(stores, chats) ==
    /\ bot_file \in stores
    /\ known_apartments = bot_file
    /\ subs_file \in {{}} \cup {{listed} : listed \in SUBSET chats}
    /\ subscribed_chats = load_subscribers(subs_file)
    /\ subs_saved = FALSE
    /\ last_cmd = {}
    /\ last_action = [chat_id \in CommandChats |-> "none"]
    /\ bot_loaded = DOMAIN bot_file
    /\ bot_announced = {}
    /\ bot_pc = "started"
    /\ bot_cycles = 0
    /\ rec_new = EmptyDict
    /\ rec_updated = EmptyDict
    /\ new_apartments = {}
    /\ updated_apartments = {}
    /\ bot_queue = {}
    /\ bot_apt = {}
    /\ bot_chats = {}
    /\ sent = {}

BotInit == BotStart(BotInitStores, Chats)

\* run_scraping_cycle, lines 407-429: run_generic_scraper returns, the file is
\* loaded again and compared with the known apartments
RunScrapingCycle(fresh) ==
    /\ BetweenCycles /\ bot_cycles < MaxCycles
    /\ \E m \in {RunMerge(fresh, bot_file)} :
          /\ m.err = None
          /\ bot_file' = m.final
          /\ rec_new' = m.new
          /\ rec_updated' = m.upd
          /\ new_apartments' = BotNew(m.final, known_apartments)
          /\ updated_apartments' = BotUpdated(m.final, known_apartments)
          /\ bot_queue' = BotNew(m.final, known_apartments)
          /\ bot_announced' = bot_announced \cup
                {apt.md5 : apt \in BotNew(m.final, known_apartments)}
    /\ bot_pc' = "notify_new"
    /\ bot_cycles' = bot_cycles + 1
    /\ bot_apt' = {} /\ bot_chats' = {} /\ sent' = {}
    /\ UNCHANGED <<known_apartments, subscribed_chats, bot_loaded>>
    /\ NoSave
    /\ BotOnly

\* generic_scraper.py line 78 and telegram_bot.py lines 455-456: the run of an
\* adapter (its enrichment included) raises, gather re-raises, the bot logs
AdapterRaises_Merging ==
    /\ BetweenCycles /\ bot_cycles < MaxCycles
    /\ \E fresh \in FreshLists : \E m \in {RunMerge(fresh, bot_file)} :
          /\ m.err = None
          /\ bot_file' = m.final
          /\ rec_new' = m.new
          /\ rec_updated' = m.upd
    /\ bot_pc' = "adapter_raised"
    /\ bot_cycles' = bot_cycles + 1
    /\ new_apartments' = {} /\ updated_apartments' = {}
    /\ bot_queue' = {} /\ bot_apt' = {} /\ bot_chats' = {} /\ sent' = {}
    /\ UNCHANGED <<known_apartments, subscribed_chats>>
    /\ NoSave /\ NoCompare
    /\ BotOnly
AdapterRaises ==
    /\ BetweenCycles /\ bot_cycles < MaxCycles
    /\ bot_pc' = "adapter_raised"
    /\ bot_cycles' = bot_cycles + 1
    /\ rec_new' = EmptyDict /\ rec_updated' = EmptyDict
    /\ new_apartments' = {} /\ updated_apartments' = {}
    /\ bot_queue' = {} /\ bot_apt' = {} /\ bot_chats' = {} /\ sent' = {}
    /\ UNCHANGED <<bot_file, known_apartments, subscribed_chats>>
    /\ NoSave /\ NoCompare
    /\ BotOnly

\* generic_scraper.py line 128 and telegram_bot.py lines 455-456: the merge
\* loop raises before the file is written, the bot logs
MergeRaises(fresh) ==
    /\ BetweenCycles /\ bot_cycles < MaxCycles
    /\ \E m \in {RunMerge(fresh, bot_file)} :
          /\ m.err # None
          /\ rec_new' = m.new
          /\ rec_updated' = m.upd
    /\ bot_pc' = "merge_raised"
    /\ bot_cycles' = bot_cycles + 1
    /\ new_apartments' = {} /\ updated_apartments' = {}
    /\ bot_queue' = {} /\ bot_apt' = {} /\ bot_chats' = {} /\ sent' = {}
    /\ UNCHANGED <<bot_file, known_apartments, subscribed_chats>>
    /\ NoSave /\ NoCompare
    /\ BotOnly

\* lines 432-434 and 441-443: the next item of the loop, and the copy of the
\* subscribers its messages go to
NextApartment ==
    /\ bot_pc \in {"notify_new", "notify_updated"}
    /\ bot_apt = {}
    /\ \E apt \in bot_queue :
          /\ bot_apt' = {apt}
          /\ bot_queue' = bot_queue \ {apt}
    /\ bot_chats' = subscribed_chats
    /\ UNCHANGED <<bot_file, known_apartments, subscribed_chats, bot_pc, bot_cycles,
                   rec_new, rec_updated, new_apartments, updated_apartments, sent>>
    /\ NoSave /\ NoCompare
    /\ BotOnly

\* send_message_to_chat, lines 364-403, for the next chat of the copy
SendMessageToChat(chat_id, outcome) ==
    /\ bot_apt # {}
    /\ chat_id \in bot_chats
    /\ outcome \in SendOutcomes
    /\ bot_chats' = bot_chats \ {chat_id}
    /\ sent' = IF outcome \in Delivered
               THEN sent \cup {[kind |-> IF bot_pc = "notify_new" THEN "new" ELSE "updated",
                                md5 |-> apt.md5, id |-> apt.id, chat |-> chat_id] :
                               apt \in bot_apt}
               ELSE sent
    /\ IF outcome \in Removing
       THEN /\ subscribed_chats' = subscribed_chats \ {chat_id}
            /\ subs_file' = save_subscribers(subscribed_chats')
            /\ subs_saved' = TRUE
            /\ last_cmd' = {}
            /\ last_action' = [last_action EXCEPT ![chat_id] = "removed"]
       ELSE /\ UNCHANGED subscribed_chats
            /\ NoSave
    /\ NoCompare
    /\ UNCHANGED <<bot_file, known_apartments, bot_pc, bot_cycles, rec_new, rec_updated,
                   new_apartments, updated_apartments, bot_queue, bot_apt>>
    /\ BotOnly

\* the inner loop over the chats is over
ApartmentDone ==
    /\ bot_apt # {}
    /\ bot_chats = {}
    /\ bot_apt' = {}
    /\ UNCHANGED <<bot_file, known_apartments, subscribed_chats, bot_pc, bot_cycles,
                   rec_new, rec_updated, new_apartments, updated_apartments,
                   bot_queue, bot_chats, sent>>
    /\ NoSave /\ NoCompare
    /\ BotOnly

\* lines 440-441: the loop over the new apartments is over
NewNotified ==
    /\ bot_pc = "notify_new"
    /\ bot_queue = {} /\ bot_apt = {}
    /\ bot_pc' = "notify_updated"
    /\ bot_queue' = updated_apartments
    /\ UNCHANGED <<bot_file, known_apartments, subscribed_chats, bot_cycles,
                   rec_new, rec_updated, new_apartments, updated_apartments,
                   bot_apt, bot_chats, sent>>
    /\ NoSave /\ NoCompare
    /\ BotOnly

\* run_scraping_cycle, had it ended without line 450
CycleFinished_KeepsKnown ==
    /\ bot_pc = "notify_updated"
    /\ bot_queue = {} /\ bot_apt = {}
    /\ bot_pc' = "completed"
    /\ UNCHANGED <<bot_file, known_apartments, subscribed_chats, bot_cycles, rec_new,
                   rec_updated, new_apartments, updated_apartments, bot_queue,
                   bot_apt, bot_chats, sent>>
    /\ NoSave /\ NoCompare
    /\ BotOnly

\* lines 449-452: self.known_apartments = current_by_md5
CycleFinished ==
    /\ bot_pc = "notify_updated"
    /\ bot_queue = {} /\ bot_apt = {}
    /\ known_apartments' = bot_file
    /\ bot_pc' = "completed"
    /\ UNCHANGED <<bot_file, subscribed_chats, bot_cycles, rec_new, rec_updated,
                   new_apartments, updated_apartments, bot_queue, bot_apt,
                   bot_chats, sent>>
    /\ NoSave /\ NoCompare
    /\ BotOnly

\* what the cycle holds while a command or a button is handled
CycleKept ==
    UNCHANGED <<bot_file, known_apartments, bot_pc, bot_cycles, rec_new, rec_updated,
                new_apartments, updated_apartments, bot_queue, bot_apt, bot_chats, sent>>

\* subscribe_command, lines 183-202, and the 'subscribe' branch of
\* button_handler, lines 317-320
Subscribe(chat_id, handler) ==
    /\ subscribed_chats' = subscribed_chats \cup {chat_id}
    /\ subs_file' = save_subscribers(subscribed_chats')
    /\ subs_saved' = TRUE
    /\ last_cmd' = {[op |-> "subscribe", chat |-> chat_id, by |-> handler]}
    /\ last_action' = [last_action EXCEPT ![chat_id] = "subscribe"]

\* unsubscribe_command, lines 204-225, and the 'unsubscribe' branch of
\* button_handler, lines 321-329
Unsubscribe_AlwaysSaves(chat_id, handler) ==
    /\ subscribed_chats' = subscribed_chats \ {chat_id}
    /\ subs_file' = save_subscribers(subscribed_chats')
    /\ subs_saved' = TRUE
    /\ last_cmd' = {[op |-> "unsubscribe", chat |-> chat_id, by |-> handler]}
    /\ last_action' = [last_action EXCEPT ![chat_id] = "unsubscribe"]
Unsubscribe(chat_id, handler) ==
    /\ IF chat_id \in subscribed_chats
       THEN /\ subscribed_chats' = subscribed_chats \ {chat_id}
            /\ subs_file' = save_subscribers(subscribed_chats')
            /\ subs_saved' = TRUE
       ELSE /\ UNCHANGED <<subscribed_chats, subs_file>>
            /\ subs_saved' = FALSE
    /\ last_cmd' = {[op |-> "unsubscribe", chat |-> chat_id, by |-> handler]}
    /\ last_action' = [last_action EXCEPT ![chat_id] = "unsubscribe"]

\* the chat sends /subscribe
SubscribeCommand(chat_id) ==
    /\ Subscribe(chat_id, "command")
    /\ CycleKept /\ NoCompare
    /\ BotOnly

\* the chat sends /unsubscribe
UnsubscribeCommand(chat_id) ==
    /\ Unsubscribe(chat_id, "command")
    /\ CycleKept /\ NoCompare
    /\ BotOnly

\* button_handler, lines 310-329: the chat presses the button with the data
ButtonData == {"subscribe", "unsubscribe"}
ButtonHandler(chat_id, data) ==
    /\ data \in ButtonData
    /\ IF data = "subscribe" THEN Subscribe(chat_id, "button")
                             ELSE Unsubscribe(chat_id, "button")
    /\ CycleKept /\ NoCompare
    /\ BotOnly

BotNext ==
    \/ \E fresh \in FreshLists : RunScrapingCycle(fresh)
    \/ AdapterRaises
    \/ \E fresh \in FreshLists : MergeRaises(fresh)
    \/ NextApartment
    \/ \E chat_id \in Chats : \E outcome \in SendOutcomes : SendMessageToChat(chat_id, outcome)
    \/ ApartmentDone
    \/ NewNotified
    \/ CycleFinished

BotIdle ==
    /\ bot_file = EmptyDict /\ known_apartments = EmptyDict
    /\ subscribed_chats = {} /\ bot_pc = "off" /\ bot_cycles = 0
    /\ rec_new = EmptyDict /\ rec_updated = EmptyDict
    /\ new_apartments = {} /\ updated_apartments = {}
    /\ bot_queue = {} /\ bot_apt = {} /\ bot_chats = {} /\ sent = {}
    /\ subs_file = {} /\ subs_saved = FALSE /\ last_cmd = {} /\ last_action = <<>>
    /\ bot_loaded = {} /\ bot_announced = {}

-----------------------------------------------------------------------------
(* yad2.py: the page fetches of one run of the scraper and the build id *)

MaxPages == 4   \* totalPages the first page can tell

\* what the rent page can hold as buildId: a build id, or nothing ("" stands
\* for an empty or a missing one)
BuildIds == {"b1", "b2"}
FoundIds == BuildIds \cup {""}

\* _ensure_build_id, line 90: not self.build_id
NoBuildId(build_id) == build_id \in {None, ""}

\* _fetch_build_id, lines 74-86: the buildId of the page when it is truthy,
\* ValueError otherwise
fetch_build_id_Unchecked(found) == Val(found)
fetch_build_id(found) == IF found # "" THEN Val(found) ELSE Raise("ValueError")

\* a page whose _get_page_data was not called
NoPage == [st |-> "none", url_id |-> None, exc |-> None]

\* the pages whose _get_page_data was called, and those that returned
Called == {p \in DOMAIN yad_tasks : yad_tasks[p].st # "none"}
Fetched == {p \in DOMAIN yad_tasks : yad_tasks[p].st = "done"}

\* ApartmentScraper.__init__ (line 50) and the call of run()
BldInit ==
    /\ yad_pc = "start"
    /\ yad_build_id = None
    /\ yad_fetches = 0
    /\ yad_tasks = [p \in 1..MaxPages |-> NoPage]

\* get_current, line 204: _get_page_data(1, city) is awaited, and sleeps
GetCurrentStarts ==
    /\ yad_pc = "start"
    /\ yad_pc' = "first"
    /\ yad_tasks' = [yad_tasks EXCEPT ![1].st = "sleep"]
    /\ UNCHANGED <<yad_build_id, yad_fetches>>
    /\ BldOnly

\* _get_page_data, lines 152-165, and _ensure_build_id, lines 90-91: the
\* sleep is over; without a build id the task calls _fetch_build_id and waits
\* for it, with one it formats the URL and sends the request
PageWakes(p) ==
    /\ yad_tasks[p].st = "sleep"
    /\ IF NoBuildId(yad_build_id)
       THEN /\ yad_tasks' = [yad_tasks EXCEPT ![p].st = "fetch_id"]
            /\ yad_fetches' = yad_fetches + 1
       ELSE /\ yad_tasks' = [yad_tasks EXCEPT ![p].st = "get", ![p].url_id = yad_build_id]
            /\ UNCHANGED yad_fetches
    /\ UNCHANGED <<yad_pc, yad_build_id>>
    /\ BldOnly

\* _fetch_build_id returns or raises, lines 74-86; on a return line 91 sets
\* self.build_id and the task goes on to its request
BuildIdFetched(p, found) ==
    /\ yad_tasks[p].st = "fetch_id"
    /\ found \in FoundIds
    /\ \E build_id \in {fetch_build_id(found)} :
          IF build_id.k = "raise"
          THEN /\ yad_tasks' = [yad_tasks EXCEPT ![p].st = "failed",
                                                 ![p].exc = build_id.exc]
               /\ UNCHANGED yad_build_id
          ELSE /\ yad_build_id' = build_id.v
               /\ yad_tasks' = [yad_tasks EXCEPT ![p].st = "get", ![p].url_id = build_id.v]
    /\ UNCHANGED <<yad_pc, yad_fetches>>
    /\ BldOnly

\* _fetch_build_id, line 66: the rent page answers with an error status
BuildIdFetchFails(p) ==
    /\ yad_tasks[p].st = "fetch_id"
    /\ yad_tasks' = [yad_tasks EXCEPT ![p].st = "failed", ![p].exc = "ClientResponseError"]
    /\ UNCHANGED <<yad_pc, yad_build_id, yad_fetches>>
    /\ BldOnly

\* _get_page_data, lines 168-185: the page is returned
PageReturns(p) ==
    /\ yad_tasks[p].st = "get"
    /\ yad_tasks' = [yad_tasks EXCEPT ![p].st = "done"]
    /\ UNCHANGED <<yad_pc, yad_build_id, yad_fetches>>
    /\ BldOnly

\* _get_page_data, line 172: raise_for_status raises
PageFails(p) ==
    /\ yad_tasks[p].st = "get"
    /\ yad_tasks' = [yad_tasks EXCEPT ![p].st = "failed", ![p].exc = "ClientResponseError"]
    /\ UNCHANGED <<yad_pc, yad_build_id, yad_fetches>>
    /\ BldOnly

\* get_current, lines 207-220: the first page tells page_count; with more
\* than one page the fetches of pages 2..page_count are handed to gather
FirstPageProcessed(page_count) ==
    /\ yad_pc = "first"
    /\ yad_tasks[1].st = "done"
    /\ page_count \in 0..MaxPages
    /\ IF page_count > 1
       THEN /\ yad_pc' = "gather"
            /\ yad_tasks' = [p \in DOMAIN yad_tasks |->
                                IF p \in 2..page_count
                                THEN [yad_tasks[p] EXCEPT !.st = "sleep"]
                                ELSE yad_tasks[p]]
       ELSE /\ yad_pc' = "returned"
            /\ UNCHANGED yad_tasks
    /\ UNCHANGED <<yad_build_id, yad_fetches>>
    /\ BldOnly

\* get_current, line 204: the exception of the first fetch leaves run()
FirstPageRaises ==
    /\ yad_pc = "first"
    /\ yad_tasks[1].st = "failed"
    /\ yad_pc' = "raised"
    /\ UNCHANGED <<yad_build_id, yad_fetches, yad_tasks>>
    /\ BldOnly

\* get_current, lines 220-231: every gathered fetch returned, run() returns
PagesGathered ==
    /\ yad_pc = "gather"
    /\ Called = Fetched
    /\ yad_pc' = "returned"
    /\ UNCHANGED <<yad_build_id, yad_fetches, yad_tasks>>
    /\ BldOnly

\* get_current, line 220: gather re-raises the exception of a fetch, while
\* the other fetches go on
PagesGatherRaises ==
    /\ yad_pc = "gather"
    /\ \E p \in DOMAIN yad_tasks : yad_tasks[p].st = "failed"
    /\ yad_pc' = "raised"
    /\ UNCHANGED <<yad_build_id, yad_fetches, yad_tasks>>
    /\ BldOnly

BldNext ==
    \/ GetCurrentStarts
    \/ \E p \in 1..MaxPages : PageWakes(p)
    \/ \E p \in 1..MaxPages : \E found \in FoundIds : BuildIdFetched(p, found)
    \/ \E p \in 1..MaxPages : BuildIdFetchFails(p)
    \/ \E p \in 1..MaxPages : PageReturns(p)
    \/ \E p \in 1..MaxPages : PageFails(p)
    \/ \E page_count \in 0..MaxPages : FirstPageProcessed(page_count)
    \/ FirstPageRaises
    \/ PagesGathered
    \/ PagesGatherRaises

BldIdle ==
    /\ yad_pc = "off" /\ yad_build_id = None /\ yad_fetches = 0 /\ yad_tasks = <<>>

-----------------------------------------------------------------------------
(* Specifications *)

vars == <<fpVars, recVars, ordVars, locVars, enVars, botVars, bldVars>>

\* the fingerprint functions on pairs of raw items
InitFp == FpInit /\ RecIdle /\ OrdIdle /\ LocIdle /\ EnIdle /\ BotIdle /\ BldIdle
NextFp == FpYad2 \/ FpFacebook \/ FpGroups
SpecFp == InitFp /\ [][NextFp]_vars

Init == RecInit /\ OrdIdle /\ FpIdle /\ LocIdle /\ EnIdle /\ BotIdle /\ BldIdle
Next == RecNext

\* run_generic_scraper, pass after pass
Spec == Init /\ [][Next]_vars

InitLocator == LocInit /\ FpIdle /\ RecIdle /\ OrdIdle /\ EnIdle /\ BotIdle /\ BldIdle
NextLocator == ProcessJsonScripts \/ LocateDetails
SpecLocator == InitLocator /\ [][NextLocator]_vars

InitEnrich == EnInit /\ FpIdle /\ RecIdle /\ OrdIdle /\ LocIdle /\ BotIdle /\ BldIdle
NextEnrich == EnNext
SpecEnrich == InitEnrich /\ [][NextEnrich]_vars

\* the scraping cycles of one bot process
InitBot == BotInit /\ FpIdle /\ RecIdle /\ OrdIdle /\ LocIdle /\ EnIdle /\ BldIdle
NextBot == BotNext
SpecBot == InitBot /\ [][NextBot]_vars

\* the cycles of one bot process that starts without a store file, and the
\* commands and the buttons of its chats
SubsFresh == {l \in FreshLists : Len(l) <= 1}
InitSubs ==
    /\ BotStart({EmptyDict}, CommandChats)
    /\ FpIdle /\ RecIdle /\ OrdIdle /\ LocIdle /\ EnIdle /\ BldIdle
NextSubs ==
    \/ \E chat_id \in CommandChats : SubscribeCommand(chat_id)
    \/ \E chat_id \in CommandChats : UnsubscribeCommand(chat_id)
    \/ \E chat_id \in CommandChats : \E data \in ButtonData : ButtonHandler(chat_id, data)
    \/ \E fresh \in SubsFresh : RunScrapingCycle(fresh)
    \/ AdapterRaises
    \/ NextApartment
    \/ \E chat_id \in CommandChats : \E outcome \in SendOutcomes :
          SendMessageToChat(chat_id, outcome)
    \/ ApartmentDone
    \/ NewNotified
    \/ CycleFinished
SpecSubs == InitSubs /\ [][NextSubs]_vars

\* one run of the yad2 scraper: its page fetches and its build id
InitBuild == BldInit /\ FpIdle /\ RecIdle /\ OrdIdle /\ LocIdle /\ EnIdle /\ BotIdle
NextBuild == BldNext
SpecBuild == InitBuild /\ [][NextBuild]_vars

\* run_generic_scraper, pass after pass, the first one finding no file
InitEmpty == Init /\ store = EmptyDict
NextEmpty == RecNext
SpecEmpty == InitEmpty /\ [][NextEmpty]_vars

\* one pass of run_generic_scraper, the page fetches of yad2 and the returns
\* of the adapters in every order
InitOrder == OrdInit /\ FpIdle /\ LocIdle /\ EnIdle /\ BotIdle /\ BldIdle
NextOrder == OrdNext
SpecOrder == InitOrder /\ [][NextOrder]_vars

-----------------------------------------------------------------------------
(* Claims on the fingerprints (SpecFp) *)

\* C1: two normalized listings with the same price and the same location but
\* different ids have the same fingerprint (md5).
C1_SameFingerprintWhenIdDiffers ==
    (fp_out # <<>> /\ fp_out[1].price = fp_out[2].price
                   /\ fp_out[1].location = fp_out[2].location
                   /\ fp_out[1].id # fp_out[2].id)
        => fp_out[1].md5 = fp_out[2].md5

-----------------------------------------------------------------------------
(* Claims on run_generic_scraper (Spec) *)

current == all_apartments[pos]
InLoop == pc = "merge" /\ pos <= Len(all_apartments)
FreshMd5s == {all_apartments[i].md5 : i \in 1..Len(all_apartments)}

\* C2: a second pass over the same fresh list, against the file the first pass
\* wrote, finds nothing new and nothing updated.
C2_MergeIdempotent ==
    pc = "done" =>
        LET again == RunMerge(all_apartments, store)
        IN  /\ again.err = None
            /\ DOMAIN again.new = {}
            /\ DOMAIN again.upd = {}
            /\ again.final = store

C2_Witness ==
    pc = "done" /\ DOMAIN new_items # {} /\ DOMAIN updated_items # {}

\* C3: no step removes a key of the persisted store, whether or not the
\* sources still return the listing.
C3_KeysOnlyGrow == [][DOMAIN store \subseteq DOMAIN store']_vars

C3_Witness ==
    pc = "done" /\ \E k \in DOMAIN store : k \notin FreshMd5s /\ k \in DOMAIN old_by_md5

\* C4: a fresh listing whose md5 is in the store with another id is classified
\* updated: the stored record gets the fresh id and apartment_page_url, keeps
\* every other field, and new_items is not changed.
C4_UpdatedOnIdChange ==
    [][(InLoop /\ current.md5 \in DOMAIN old_by_md5
               /\ current.id # old_by_md5[current.md5].id
               /\ <<pc, pos>>' # <<pc, pos>>)
        => /\ pc' = "merge"
           /\ current.md5 \in DOMAIN updated_items'
           /\ LET was == old_by_md5[current.md5]
                  now == updated_items'[current.md5]
              IN  /\ now.id = current.id
                  /\ now.apartment_page_url = current.apartment_page_url
                  /\ \A k \in DOMAIN was \ {"id", "apartment_page_url"} : now[k] = was[k]
           /\ new_items' = new_items]_vars

\* C5: a fresh listing whose md5 is not in the store is classified new and is
\* in the written store under its md5; the store grows by exactly the number
\* of distinct new md5s (by one entry from an empty store and one listing).
C5_NewInserted ==
    [][(pc = "merge" /\ pc' = "done")
        => LET absent == FreshMd5s \ DOMAIN store
           IN  /\ DOMAIN new_items = absent
               /\ \A i \in 1..Len(all_apartments) :
                    all_apartments[i].md5 \in absent =>
                        /\ all_apartments[i].md5 \in DOMAIN store'
                        /\ store'[all_apartments[i].md5].id = all_apartments[i].id
                        /\ \E j \in 1..Len(all_apartments) :
                               store'[all_apartments[i].md5] = all_apartments[j]
               /\ Cardinality(DOMAIN store') =
                      Cardinality(DOMAIN store) + Cardinality(absent)]_vars

C5_Witness ==
    /\ pc = "done" /\ Len(all_apartments) = 1 /\ DOMAIN old_by_md5 = {}
    /\ DOMAIN new_items = {all_apartments[1].md5}
    /\ Cardinality(DOMAIN store) = 1

\* C6: a fresh listing whose md5 is in the store with the same id is
\* unchanged: it enters neither new_items nor updated_items and the stored
\* record keeps every field, whatever the fresh listing's other fields are.
C6_UnchangedOnSameId ==
    [][/\ (InLoop /\ current.md5 \in DOMAIN old_by_md5
                  /\ current.id = old_by_md5[current.md5].id)
            => /\ new_items' = new_items
               /\ updated_items' = updated_items
               /\ old_by_md5' = old_by_md5
       /\ (pc = "merge" /\ pc' = "done")
            => \A i \in 1..Len(all_apartments) :
                LET m == all_apartments[i].md5
                IN  (m \in DOMAIN store /\ all_apartments[i].id = store[m].id)
                        => /\ m \notin DOMAIN new_items
                           /\ m \notin DOMAIN updated_items
                           /\ store'[m] = store[m]]_vars

C6_Witness ==
    /\ pc = "done"
    /\ \E i \in 1..Len(all_apartments) :
        LET m == all_apartments[i].md5
        IN  /\ m \in DOMAIN store /\ m \notin DOMAIN new_items
            /\ m \notin DOMAIN updated_items
            /\ store[m].id = all_apartments[i].id
            /\ store[m].price # all_apartments[i].price


-----------------------------------------------------------------------------
(* Claims on the payload locator (SpecLocator) *)

Range(f) == {f[i] : i \in DOMAIN f}

C8_FirstTargetReturned ==
    loc_called = "process_json_scripts" =>
        \A j \in DOMAIN loc_scripts : \A raws \in ListingsPages :
            ( /\ loc_scripts[j] = ListingsScript(raws)
              /\ \A h \in 1..(j - 1) : loc_scripts[h] \in NoListingsEntry )
            => loc_result = Returned(Records(raws), j)

C8_Witness ==
    /\ loc_called = "process_json_scripts"
    /\ Len(loc_scripts) >= 2
    /\ loc_scripts[1] \in NoListingsEntry
    /\ loc_scripts[2] = ListingsScript(<<RawB, RawA>>)
    /\ loc_result.k = "val"
    /\ Len(loc_result.v) = 2

\* C9: when every script deserializes and none holds the payload sought, the
\* locator raises the "not found" ValueError, and the message of that error
\* names the key prefix that was sought.
C9_NotFoundNamesPrefix ==
    /\ ( /\ loc_called = "process_json_scripts"
         /\ \A i \in DOMAIN loc_scripts : loc_scripts[i] \in NoListingsEntry )
       => /\ loc_result.k = "raise"
          /\ loc_result.exc = "ValueError"
          /\ JSON_KEY_PREFIX_LISTINGS \in Range(loc_result.message)
    /\ ( /\ loc_called = "fetch_and_parse_details"
         /\ \A i \in DOMAIN loc_scripts : loc_scripts[i] \in NoDetailsEntry )
       => /\ loc_result.k = "raise"
          /\ loc_result.exc = "ValueError"
          /\ JSON_KEY_PREFIX_DETAILS \in Range(loc_result.message)

-----------------------------------------------------------------------------
(* Claims on the enrichment (SpecEnrich) *)

\* the detail attributes of the page of the listing with the id
ExpectedDetails(id) ==
    [description |-> "Sunny flat",
     full_address |-> "Herzl " \o id \o ", Tel Aviv",
     location |-> "Herzl " \o id \o ", Tel Aviv",
     delivery_types |-> <<"IN_PERSON">>,
     unit_room_info |-> "3 beds - 1 bath",
     rooms |-> "3",
     comments_count |-> "2"]

\* C10: a task whose fetch timed out on the first and on the second attempt
\* and whose third attempt returned the page with the detail payload is done
\* without an exception, and its listing holds its four original fields and
\* the seven detail attributes of that page.
C10_ThirdAttemptMerges ==
    \A j \in DOMAIN en_tasks :
        (en_tasks[j].attempt = 2 /\ en_tasks[j].got \in {"payload", "payload_second"})
        => /\ en_tasks[j].st = "done"
           /\ en_tasks[j].exc = None
           /\ DOMAIN en_apartments[j] =
                  {"id", "price", "formatted_price", "share_uri"} \cup DetailKeys
           /\ en_apartments[j].id = ListingIds[j]
           /\ en_apartments[j].share_uri = SHARE_URI(ListingIds[j])
           /\ \A key \in DetailKeys :
                  en_apartments[j][key] = ExpectedDetails(ListingIds[j])[key]

C10_Witness ==
    \E j \in DOMAIN en_tasks :
        /\ en_tasks[j].attempt = 2
        /\ en_tasks[j].got = "payload"
        /\ en_tasks[j].st = "done"
        /\ en_apartments[j].rooms = "3"

\* enrich_apartments_with_details, and run with it, is over
EnrichEnded == en_pc \in {"returned", "raised"}

OriginalFields == {"id", "price", "formatted_price", "share_uri"}

\* C11: when the enrichment run is over and the detail fetch of a task timed
\* out on every attempt, the run has returned the listings to its caller and
\* the listing of that task holds its original fields and nothing else.
C11_TimedOutListingReturned ==
    \A j \in DOMAIN en_tasks :
        (/\ EnrichEnded
         /\ en_tasks[j].st = "failed"
         /\ en_tasks[j].got = "timeout"
         /\ en_tasks[j].attempt = max_retries)
        => /\ en_pc = "returned"
           /\ DOMAIN en_apartments[j] = OriginalFields
           /\ en_apartments[j].id = ListingIds[j]

\* C12: when the enrichment run is over and a task of a batch failed, the run
\* has returned the listings, and no other task of that batch was kept from
\* its fetch: each one that has a share_uri is done with its detail
\* attributes merged.
C12_FailureNotFatalToBatch ==
    \A j \in DOMAIN en_tasks :
        (EnrichEnded /\ en_tasks[j].st = "failed")
        => /\ en_pc = "returned"
           /\ \A h \in DOMAIN en_tasks :
                  (h # j /\ InBatch(h) /\ InBatch(j)
                   /\ en_apartments[h].share_uri \notin {"", NA, None}
                   /\ en_tasks[h].st # "failed")
                  => /\ en_tasks[h].st = "done"
                     /\ DetailKeys \subseteq DOMAIN en_apartments[h]

\* the number of the batch the listing at index j is in (range(0, len, BATCH_SIZE))
BatchOf(j) == (j - 1) \div BATCH_SIZE

\* C17: whenever a task of a batch exists (was created, runs or has ended),
\* every task of every earlier batch has finished: returned, raised or been
\* cancelled.
C17_BatchesSequential ==
    \A j, h \in DOMAIN en_tasks :
        (BatchOf(j) < BatchOf(h) /\ en_tasks[h].st # "none")
        => en_tasks[j].st \in Finished

\* the second batch runs after the tasks of the first finished, the later
\* task of the first batch having needed no retry and the earlier one two
C17_Witness ==
    /\ Len(en_apartments) = 3
    /\ en_tasks[3].st = "fetch"
    /\ en_tasks[1].st = "done" /\ en_tasks[1].attempt = 2
    /\ en_tasks[2].st = "done" /\ en_tasks[2].attempt = 0

\* the pages on which the detail loop locates a detail payload
LocatedPages == {"payload", "payload_second", "bad_target"}

\* C20: a task whose page holds a detail payload the locator returns never
\* ends with an exception: extract_additional_details returns the seven
\* attributes, 'N/A' (or the empty list) standing for what the payload lacks,
\* and they are merged into the listing.
C20_ExtractionNeverRaises ==
    \A j \in DOMAIN en_tasks :
        en_tasks[j].got \in LocatedPages
        => /\ en_tasks[j].st = "done"
           /\ en_tasks[j].exc = None
           /\ DetailKeys \subseteq DOMAIN en_apartments[j]
           /\ extract_additional_details(
                  locate_details(PageScripts(en_tasks[j].got, en_apartments[j].id),
                                 en_apartments[j].id).v).k = "val"

-----------------------------------------------------------------------------
(* Claims on the adapters of a cycle and on the store (Spec) *)

\* run_generic_scraper is over: it returned or an exception left it
CycleEnded == pc \in {"done", "failed"}

\* C13: when a cycle is over in which the run of one registered adapter
\* raised and the run of another returned its list, the cycle completed, and
\* every listing of the adapter that returned is in the store under its md5.
C13_CompletedAdapterPersisted ==
    \A a, b \in Adapters :
        (CycleEnded /\ tasks[a] = "raised" /\ tasks[b] = "returned")
        => /\ pc = "done"
           /\ \A i \in DOMAIN results[b] :
                  Annotate(results[b][i], type_name(b)).md5 \in DOMAIN store

\* C15: the pass writes every record of the store whose md5 is the md5 of no
\* fresh listing of the cycle back under the same key with every field as it
\* was before the cycle.
C15_UnseenRetainedVerbatim ==
    [][(pc = "merge" /\ pc' = "done")
        => \A k \in DOMAIN store \ FreshMd5s :
               /\ k \in DOMAIN store'
               /\ store'[k] = store[k]]_vars

C15_Witness ==
    /\ pc = "done"
    /\ DOMAIN new_items # {}
    /\ \E k \in DOMAIN old_by_md5 \ FreshMd5s :
           /\ k \in DOMAIN store
           /\ store[k] = old_by_md5[k]
           /\ store[k].id # "A"

\* C19: a pass loads the store once, before it classifies any fresh listing,
\* and dumps it once, after it classified the last one: nothing is classified
\* before the load, nothing is written while the loop runs, a pass that
\* returned loaded once and wrote once, and a pass that raised wrote nothing.
C19_ReadOnceWriteOnce ==
    /\ pc \in {"gather", "read"}
         => /\ reads = 0 /\ writes = 0
            /\ DOMAIN new_items = {} /\ DOMAIN updated_items = {}
    /\ pc = "merge" => reads = 1 /\ writes = 0
    /\ pc = "done" => reads = 1 /\ writes = 1 /\ pos > Len(all_apartments)
    /\ pc = "failed" => reads <= 1 /\ writes = 0

\* a pass over three fresh listings returned and changed the file
C19_Witness ==
    /\ pc = "done"
    /\ Len(all_apartments) = 3
    /\ reads = 1 /\ writes = 1
    /\ DOMAIN store # DOMAIN old_by_md5

\* the fresh listing at j is the last one of several with its md5
LastOfDuplicates(j) ==
    /\ \E i \in 1..(j - 1) : all_apartments[i].md5 = all_apartments[j].md5
    /\ \A h \in (j + 1)..Len(all_apartments) : all_apartments[h].md5 # all_apartments[j].md5

\* C16: when the merge of a cycle is over and several fresh listings had the
\* same md5, the last of them determines the store: the file holds a record
\* under that md5 which, when the md5 was not in the file before, is that
\* listing, and which, when it was, has the id and the page url of that
\* listing.
C16_LastDuplicateDetermines ==
    \A j \in 1..Len(all_apartments) :
        (CycleEnded /\ LastOfDuplicates(j))
        => LET last == all_apartments[j]
           IN  /\ last.md5 \in DOMAIN store
               /\ IF last.md5 \in DOMAIN old_by_md5
                  THEN \A key \in {"id", "apartment_page_url"} \cap DOMAIN last :
                           store[last.md5][key] = last[key]
                  ELSE store[last.md5] = last

-----------------------------------------------------------------------------
(* Claims on the cycles of the bot (SpecBot) *)

\* C14: a cycle in which the run of an adapter (or its enrichment) raises
\* leaves the store file as it was before the cycle, produces no new and no
\* updated items, lets the bot announce nothing and leaves what the bot knows
\* unchanged.
C14_FailedCycleChangesNothing ==
    [][(bot_pc' = "adapter_raised" /\ bot_cycles' = bot_cycles + 1)
       => /\ bot_file' = bot_file
          /\ known_apartments' = known_apartments
          /\ rec_new' = EmptyDict /\ rec_updated' = EmptyDict
          /\ new_apartments' = {} /\ updated_apartments' = {}
          /\ sent' = {}]_vars

\* a cycle failed after a cycle that completed and announced a new item
C14_Witness ==
    /\ bot_pc = "adapter_raised"
    /\ bot_cycles = 2
    /\ bot_file # EmptyDict
    /\ known_apartments = bot_file
    /\ sent = {}

\* run_generic_scraper returned in the running or the last cycle of the bot
ScrapeCompleted == bot_pc \in {"notify_new", "notify_updated", "completed"}

-----------------------------------------------------------------------------
(* Claims on the retries and the batches of the enrichment (SpecEnrich) *)

\* C21: a task makes at most max_retries + 1 fetch attempts: the first after
\* its delay, each further one after the backoff sleep that follows a timeout
\* of the one before; a timeout of the last attempt ends the task with the
\* TimeoutError, and a task that raised makes no further attempt and sleeps
\* no more.
C21_RetryBudget ==
    [][\A j \in DOMAIN en_tasks :
        LET was == en_tasks[j]
            now == en_tasks'[j]
        IN  /\ now.attempt <= max_retries
            /\ (now.st = "fetch" /\ was.st # "fetch")
                 => \/ was.st = "delay" /\ now.attempt = 0
                    \/ was.st = "backoff" /\ was.got = "timeout"
                                          /\ now.attempt = was.attempt
            /\ now.st = "backoff"
                 => \/ was.st = "backoff" /\ now = was
                    \/ was.st = "fetch" /\ now.got = "timeout"
                                        /\ now.attempt = was.attempt + 1
            /\ (was.st = "fetch" /\ was.attempt = max_retries /\ now.st # "fetch")
                 => now.st \in Finished
            /\ was.st = "failed" => now = was]_vars

\* the third attempt of a task timed out and the TimeoutError left the task
C21_Witness ==
    \E j \in DOMAIN en_tasks :
        /\ en_tasks[j].st = "failed"
        /\ en_tasks[j].attempt = max_retries
        /\ en_tasks[j].got = "timeout"
        /\ en_tasks[j].exc = "TimeoutError"
        /\ en_pc = "raised"


\* the transport errors of a fetch
TransportErrors == {"timeout", "connection_error"}

\* C22: a task that ended with a transport error of its fetch, a timeout or a
\* connection failure, made all max_retries + 1 attempts before.
C22_TransportErrorsRetried ==
    \A j \in DOMAIN en_tasks :
        (en_tasks[j].st = "failed" /\ en_tasks[j].got \in TransportErrors)
        => en_tasks[j].attempt = max_retries


Refusals == {"denied", "rate_limited"}

\* C23: an access-denied (401/403) or rate-limited (429) response, on the
\* listing page or on a detail resource, is not retried and not swallowed: the
\* fetch that met it raises ClientResponseError at once (the task is failed,
\* never in a backoff sleep), and the run of the adapter raises instead of
\* returning listings.
C23_RefusalsRaisedAtOnce ==
    /\ en_page \in Refusals => en_pc = "raised" /\ en_apartments = <<>>
    /\ \A j \in DOMAIN en_tasks :
          en_tasks[j].got \in Refusals
          => /\ en_tasks[j].st = "failed"
             /\ en_tasks[j].exc = "ClientResponseError"
             /\ en_pc \in {"batch", "raised"}

C23_Witness ==
    /\ en_pc = "raised"
    /\ \E j \in DOMAIN en_tasks :
          /\ en_tasks[j].got = "rate_limited"
          /\ en_tasks[j].st = "failed"
          /\ en_tasks[j].attempt = 0


\* C24: the step in which a task of a batch raises leaves every task of that
\* batch finished, the unfinished ones cancelled; a finished task is never
\* run again, the listing of a cancelled task holds its original fields and
\* nothing else, and after a failure no task of a later batch is created and
\* the enrichment does not go on to a next batch.
C24_FailureAbortsBatch ==
    [][\A j \in DOMAIN en_tasks :
        /\ (en_tasks'[j].st = "failed" /\ en_tasks[j].st # "failed")
             => \A h \in DOMAIN en_tasks :
                   /\ InBatch(h) => en_tasks'[h].st \in Finished
                   /\ (InBatch(h) /\ h # j /\ en_tasks[h].st \notin Finished)
                        => en_tasks'[h].st = "cancelled"
        /\ en_tasks[j].st \in {"failed", "cancelled"}
             => /\ en_tasks'[j] = en_tasks[j]
                /\ en_i' = en_i
                /\ en_pc' \in {"batch", "raised"}
                /\ \A h \in DOMAIN en_tasks :
                      en_tasks[h].st = "none" => en_tasks'[h].st = "none"
        /\ en_tasks'[j].st = "cancelled"
             => DOMAIN en_apartments'[j] = OriginalFields]_vars

\* the first batch was aborted by the failure of its first task, which
\* cancelled the second, and the third listing never got a task
C24_Witness ==
    /\ Len(en_apartments) = 3
    /\ en_pc = "raised"
    /\ en_tasks[1].st = "failed"
    /\ en_tasks[2].st = "cancelled"
    /\ en_tasks[3].st = "none"


\* the tasks that were created and have not finished
InFlight == {j \in DOMAIN en_tasks : en_tasks[j].st \notin Finished \cup {"none"}}

\* C25: every index of the list belongs to exactly one batch of the loop; a
\* task is created only for a listing that has none yet; the listings
\* that have got a task are those of the consecutive slices of at most
\* BATCH_SIZE listings up to the current batch, each task holding the index of
\* its listing; never more than BATCH_SIZE tasks are in flight; and when the
\* enrichment returns every listing has had exactly its one task.
C25_OneTaskPerListing ==
    [][/\ \A j \in DOMAIN en_apartments' :
            Cardinality({i \in batch_starts(1, Len(en_apartments')) :
                            j \in BatchIndices(i, Len(en_apartments'))}) = 1
       /\ \A j \in DOMAIN en_tasks :
            (en_tasks'[j].st = "created" /\ en_tasks'[j] # en_tasks[j])
            => en_tasks[j].st = "none"
       /\ Cardinality(InFlight') <= BATCH_SIZE
       /\ InFlight' \subseteq BatchIndices(en_i', Len(en_apartments'))
       /\ Cardinality(BatchIndices(en_i', Len(en_apartments'))) <= BATCH_SIZE
       /\ en_i' % BATCH_SIZE = 1 % BATCH_SIZE
       /\ en_pc' = "batch"
            => {j \in DOMAIN en_tasks' : en_tasks'[j].st # "none"}
                 = {j \in DOMAIN en_tasks' : j < en_i' + BATCH_SIZE}
       /\ en_pc' = "returned"
            => \A j \in DOMAIN en_apartments' :
                  en_tasks'[j].st = "done" /\ en_tasks'[j].index = j]_vars

\* three listings were enriched in a batch of BATCH_SIZE and a batch of one
C25_Witness ==
    /\ Len(en_apartments) = BATCH_SIZE + 1
    /\ en_pc = "returned"
    /\ \A j \in DOMAIN en_tasks : en_tasks[j].got = "payload"

\* C26: a listing changes only in the step in which the task created for it
\* merges its details, that task holding the index of this listing and no
\* other task moving in the step; the tasks that exist hold distinct indices.
C26_TaskWritesOwnListing ==
    [][/\ \A h \in DOMAIN en_apartments :
            en_apartments'[h] # en_apartments[h]
            => /\ en_tasks[h].st = "fetch" /\ en_tasks'[h].st = "done"
               /\ en_tasks[h].index = h
               /\ \A j \in DOMAIN en_tasks : j # h => en_tasks'[j] = en_tasks[j]
       /\ \A j, h \in DOMAIN en_tasks' :
            (j # h /\ en_tasks'[j].st # "none" /\ en_tasks'[h].st # "none")
            => en_tasks'[j].index # en_tasks'[h].index]_vars

\* the task of the second batch merged into the third listing while the
\* listings of the first batch, enriched in the other order, kept theirs
C26_Witness ==
    /\ Len(en_apartments) = 3
    /\ en_tasks[3].st = "done" /\ en_tasks[3].got = "payload" /\ en_tasks[3].index = 3
    /\ en_tasks[1].got = "payload" /\ en_tasks[2].got = "payload_second"
    /\ en_apartments[3].description = "Sunny flat"
    /\ en_apartments[3].full_address = ExpectedDetails(ListingIds[3]).full_address


(***************************************************************************)
(* Claims on the order of the adapters and of their listings (Spec)        *)
(***************************************************************************)

AnnotatedOf(name) ==
    [j \in 1..Len(results[name]) |-> Annotate(results[name][j], type_name(name))]

\* C28 (SpecOrder): whatever the order in which the page fetches of yad2 and
\* the runs of the adapters complete, yad2 returns the items of its pages in
\* the order of the page numbers, the listings are concatenated in registry
\* order (yad2, then facebook), each adapter's in the order it returned them,
\* and the file a pass writes is the reconciliation of that list against the
\* file it found.
C28_OrderIndependentOfCompletion ==
    [][/\ (tasks["yad2"] = "running" /\ tasks'["yad2"] = "returned")
            => /\ \A p \in DOMAIN pages : pages[p].rank > 0
               /\ results'["yad2"]
                    = IF Len(pages) = 1 THEN pages[1].items
                      ELSE IF Len(pages) = 2 THEN pages[1].items \o pages[2].items
                      ELSE pages[1].items \o pages[2].items \o pages[3].items
       /\ (pc = "gather" /\ pc' = "read")
            => all_apartments' = AnnotatedOf("yad2") \o AnnotatedOf("facebook")
       /\ (pc = "merge" /\ pc' = "done")
            => /\ all_apartments = AnnotatedOf("yad2") \o AnnotatedOf("facebook")
               /\ store' = RunMerge(AnnotatedOf("yad2") \o AnnotatedOf("facebook"),
                                    store).final]_vars

\* facebook returned before yad2 and page 3 of yad2 before page 2, the two
\* pages holding different items; the list starts with the item of page 2
C28_Witness ==
    /\ pc = "read"
    /\ finished = <<"facebook", "yad2">>
    /\ results["facebook"] # <<>>
    /\ Len(pages) = 3
    /\ pages[3].rank = 2 /\ pages[2].rank = 3
    /\ pages[2].items # <<>> /\ pages[3].items # <<>>
    /\ pages[2].items # pages[3].items
    /\ all_apartments[1] = Annotate(pages[2].items[1], "yad2")
    /\ all_apartments[2] = Annotate(pages[3].items[1], "yad2")
    /\ all_apartments[3].type = "facebook marketplace"


(***************************************************************************)
(* Claims on the shapes the locator meets (SpecLocator)                    *)
(***************************************************************************)

\* the scripts the walk for the listings passes over, those that hold only
\* entries lacking a key of the descent among them; the same for the details
PassedOverForListings == NoListingsEntry \cup {KeylessScript(ListingsKey)}
PassedOverForDetails == NoDetailsEntry \cup {KeylessScript(DetailsKey)}
ListingsAfterKeyless ==
    KeylessThenPayload(ListingsKey, "marketplace_rentals_map_view_stories")
DetailsAfterKeyless ==
    KeylessThenPayload(DetailsKey, "marketplace_product_details_page")

\* C29: an entry under the prefix whose data object lacks a key of the
\* descent (__bbox, result, data, viewer or the target field) counts as no
\* match and the walk goes on: scripts that hold such entries only are passed
\* over like scripts without an entry, ending in the "not found" ValueError
\* when nothing else is there, and when the payload follows such entries in
\* the same script, the locator returns that payload.
C29_MissingKeyIsNoMatch ==
    /\ loc_called = "process_json_scripts" =>
         /\ (\A i \in DOMAIN loc_scripts : loc_scripts[i] \in PassedOverForListings)
            => loc_result = Raised("ValueError", ListingsNotFoundMessage, Len(loc_scripts))
         /\ \A j \in DOMAIN loc_scripts :
              ( /\ loc_scripts[j] = ListingsAfterKeyless
                /\ \A h \in 1..(j - 1) : loc_scripts[h] \in PassedOverForListings )
              => loc_result = Returned(Records(<<RawA>>), j)
    /\ loc_called = "fetch_and_parse_details" =>
         /\ (\A i \in DOMAIN loc_scripts : loc_scripts[i] \in PassedOverForDetails)
            => loc_result = Raised("ValueError", DetailsNotFoundMessage(LocApartmentId),
                                   Len(loc_scripts))
         /\ \A j \in DOMAIN loc_scripts :
              ( /\ loc_scripts[j] = DetailsAfterKeyless
                /\ \A h \in 1..(j - 1) : loc_scripts[h] \in PassedOverForDetails )
              => loc_result = Returned(DetailsOf(RawA), j)

\* the first script holds only entries that lack a key, the second holds the
\* payload after such entries: the records of the second are returned
C29_Witness ==
    /\ loc_called = "process_json_scripts"
    /\ Len(loc_scripts) = 2
    /\ loc_scripts[1] = KeylessScript(ListingsKey)
    /\ loc_scripts[2] = ListingsAfterKeyless
    /\ loc_result = Returned(Records(<<RawA>>), 2)


\* C30: a call of the locator that raises either raises the JSONDecodeError
\* of a candidate that cannot be deserialized, or the "not found" ValueError
\* after every candidate was examined; no other shape of a candidate makes
\* it raise.
C30_OnlyTwoErrors ==
    loc_result.k = "raise"
    => \/ /\ loc_result.exc = "JSONDecodeError"
          /\ loc_scripts[loc_result.loaded] = MalformedScript
       \/ /\ loc_result.exc = "ValueError"
          /\ loc_result.loaded = Len(loc_scripts)
          /\ loc_result.message
               \in {ListingsNotFoundMessage, DetailsNotFoundMessage(LocApartmentId)}


(***************************************************************************)
(* Claims on the partition and the keys of the store (Spec)                *)
(***************************************************************************)

\* C31: while a pass classifies (the file still being the one it read) and
\* when it ends, new_items and updated_items share no md5, every md5 of
\* new_items is absent from the file read, every md5 of updated_items is a key
\* of it, both hold md5s of fresh listings only; and the file the pass writes
\* has the md5 of every fresh listing among its keys.
C31_PartitionDisjoint ==
    [][/\ (pc' \in {"merge", "failed"} \/ (pc = "merge" /\ pc' = "done"))
            => /\ DOMAIN new_items' \cap DOMAIN updated_items' = {}
               /\ DOMAIN new_items' \cap DOMAIN store = {}
               /\ DOMAIN updated_items' \subseteq DOMAIN store
               /\ DOMAIN new_items' \cup DOMAIN updated_items'
                    \subseteq {all_apartments'[i].md5 : i \in 1..Len(all_apartments')}
       /\ (pc = "merge" /\ pc' = "done")
            => /\ FreshMd5s \subseteq DOMAIN store'
               /\ FreshMd5s = DOMAIN new_items \cup (FreshMd5s \cap DOMAIN store)]_vars

\* a pass that found a new listing and updated a stored one, and kept a
\* record no source returned
C31_Witness ==
    /\ pc = "done"
    /\ Cardinality(DOMAIN new_items) = 1
    /\ Cardinality(DOMAIN updated_items) = 1
    /\ DOMAIN store \ FreshMd5s # {}
    /\ DOMAIN new_items \cap DOMAIN old_by_md5 = {}
    /\ DOMAIN updated_items \subseteq DOMAIN old_by_md5


\* C32 (SpecEmpty): when the first pass finds no file, in every pass
\* updated_items stays empty: a stored record whose md5 is that of a fresh
\* listing has the id of that listing, so the branch of the changed id is
\* never taken, and no pass fails in the loop.
C32_NoUpdatesFromEmptyStore ==
    /\ DOMAIN updated_items = {}
    /\ \A i \in 1..Len(all_apartments) :
          all_apartments[i].md5 \in DOMAIN old_by_md5
          => old_by_md5[all_apartments[i].md5].id = all_apartments[i].id
    /\ \A i, j \in 1..Len(all_apartments) :
          all_apartments[i].md5 = all_apartments[j].md5
          => all_apartments[i].id = all_apartments[j].id
    /\ pc = "failed" => \E a \in Adapters : tasks[a] = "raised"

\* a later pass met again listings of both adapters that an earlier pass had
\* stored, next to a new one
C32_Witness ==
    /\ pc = "done"
    /\ \E i, j \in 1..Len(all_apartments) :
          /\ all_apartments[i].type = "yad2"
          /\ all_apartments[j].type = "facebook marketplace"
          /\ all_apartments[i].md5 \in DOMAIN old_by_md5
          /\ all_apartments[j].md5 \in DOMAIN old_by_md5
    /\ DOMAIN new_items # {}
    /\ DOMAIN updated_items = {}


\* C33: in every file a pass writes, each key is the md5 field of the record
\* under it: for the records of new_items, for the records whose id and url
\* the pass updated, and for the records it kept, pass after pass.
C33_KeyIsRecordMd5 ==
    [][(pc = "merge" /\ pc' = "done")
        => /\ \A k \in DOMAIN store' : store'[k].md5 = k
           /\ \A k \in DOMAIN new_items : k \in DOMAIN store' /\ new_items[k].md5 = k
           /\ \A k \in DOMAIN updated_items :
                 k \in DOMAIN store' /\ updated_items[k].md5 = k
           /\ \A k \in DOMAIN store : k \in DOMAIN store']_vars

\* a file with a record just inserted, a record whose id was just updated and
\* a record kept from the file before, each under its md5
C33_Witness ==
    /\ pc = "done"
    /\ \E n \in DOMAIN new_items : \E u \in DOMAIN updated_items :
       \E r \in DOMAIN store \ (DOMAIN new_items \cup DOMAIN updated_items) :
          /\ store[n].md5 = n /\ store[n] = new_items[n]
          /\ store[u].md5 = u /\ store[u] = updated_items[u]
          /\ store[r].md5 = r


\* the scripts process_json_scripts passes over: those without an entry under
\* the listing prefix, and those whose first entry with a non-empty target
\* under the prefix has no edges or empty ones, a later entry of the same
\* script holding records or not
EmptyFirstTarget == HollowScripts(ListingsKey, "marketplace_rentals_map_view_stories")
WithoutListings == NoListingsEntry \cup EmptyFirstTarget

\* the scripts of HollowScripts whose first entry holds a target without
\* edges, or with empty ones, and whose second holds the records of the
\* first raw item
EdgelessThenPayload ==
    Dumps(Blob(<<InnerEntry(ListingsKey,
                    DataObject("marketplace_rentals_map_view_stories",
                               JDict("page_info" :> JNull))),
                 InnerEntry(ListingsKey, ListingsData(<<RawA>>))>>))
EmptyEdgesThenPayload ==
    Dumps(Blob(<<InnerEntry(ListingsKey,
                    DataObject("marketplace_rentals_map_view_stories",
                               JDict("edges" :> JEmptyList))),
                 InnerEntry(ListingsKey, ListingsData(<<RawA>>))>>))

\* C34: process_json_scripts treats a script whose first entry with a
\* non-empty target has empty or no edges as holding no target, whatever a
\* later entry of that script holds: it returns the records of the first
\* later script that holds the payload, and raises the "not found" ValueError
\* when no script is left.
C34_FirstNonEmptyTargetDecides ==
    [][loc_called' = "process_json_scripts" =>
         /\ (\A i \in DOMAIN loc_scripts : loc_scripts[i] \in WithoutListings)
            => loc_result' = Raised("ValueError", ListingsNotFoundMessage, Len(loc_scripts))
         /\ \A j \in DOMAIN loc_scripts :
              ( /\ loc_scripts[j] \in ListingsPayloads
                /\ \A h \in 1..(j - 1) : loc_scripts[h] \in WithoutListings )
              => /\ loc_result'.k = "val"
                 /\ loc_result'.loaded = j
                 /\ \A raws \in ListingsPages :
                       loc_scripts[j] = ListingsScript(raws)
                       => loc_result'.v = Records(raws)]_vars

\* the first script holds empty edges and then the records of A, the second
\* a target without edges and then the records of A, the third the records
\* of B and A, which are the ones returned
C34_Witness ==
    /\ loc_called = "process_json_scripts"
    /\ Len(loc_scripts) = 3
    /\ loc_scripts[1] = EmptyEdgesThenPayload
    /\ {loc_scripts[1], loc_scripts[2]} \subseteq EmptyFirstTarget
    /\ loc_scripts[2] = EdgelessThenPayload
    /\ loc_scripts[3] = ListingsScript(<<RawB, RawA>>)
    /\ loc_result = Returned(Records(<<RawB, RawA>>), 3)


\* C35: the candidates are deserialized one at a time, in order: when the
\* candidates up to the j-th yield the target at the j-th and others follow, the
\* search over all the candidates ends with the same value after passing j candidates to
\* json.loads, whatever the later candidates are, a non-deserializable one
\* included; this holds for the listing search and for the detail search.
C35_LaterCandidatesUntouched ==
    [][/\ loc_called' = "process_json_scripts" =>
            \A j \in 1..(Len(loc_scripts) - 1) :
                \E first \in {process_json_scripts(SubSeq(loc_scripts, 1, j))} :
                    (first.k = "val" /\ first.loaded = j) => loc_result' = first
       /\ loc_called' = "fetch_and_parse_details" =>
            \A j \in 1..(Len(loc_scripts) - 1) :
                \E first \in {locate_details(SubSeq(loc_scripts, 1, j), LocApartmentId)} :
                    (first.k = "val" /\ first.loaded = j) => loc_result' = first]_vars

C35_Witness ==
    /\ loc_called = "process_json_scripts"
    /\ Len(loc_scripts) = 3
    /\ loc_scripts[1] \in NoListingsEntry
    /\ loc_scripts[2] = ListingsScript(<<RawA>>)
    /\ loc_scripts[3] = MalformedScript
    /\ loc_result = Returned(Records(<<RawA>>), 2)


(* Claims on the listings without a detail page (SpecEnrich) *)

\* the listing has no detail page: its share_uri is null, empty or 'N/A'
WithoutDetailPage(apartment) == apartment.share_uri \in {None, "", NA}

\* C36: the task of a listing whose share_uri is null, empty or 'N/A' never
\* sleeps a delay or a backoff and never fetches; it never fails and is never
\* cancelled, so it makes no attempt, gets nothing and holds no exception; its
\* listing keeps its fields; and every task that is cancelled is cancelled in
\* a step in which a task of a listing that has a share_uri fails.
C36_NoDetailResourceIsSkipped ==
    [][/\ \A j \in DOMAIN en_tasks' :
            WithoutDetailPage(en_apartments'[j]) =>
                /\ en_tasks'[j].st \in {"none", "created", "done"}
                /\ en_tasks'[j].attempt = 0
                /\ en_tasks'[j].got = "none"
                /\ en_tasks'[j].exc = None
                /\ j \in DOMAIN en_apartments => en_apartments'[j] = en_apartments[j]
       /\ \A h \in DOMAIN en_tasks :
            (en_tasks'[h].st = "cancelled" /\ en_tasks[h].st # "cancelled") =>
                \E j \in DOMAIN en_tasks :
                    /\ en_tasks'[j].st = "failed" /\ en_tasks[j].st # "failed"
                    /\ ~WithoutDetailPage(en_apartments[j])]_vars

C36_Witness ==
    /\ en_pc = "batch"
    /\ en_i = 1
    /\ Len(en_apartments) = 3
    /\ en_apartments[1] = [id |-> "A", price |-> "5000",
                           formatted_price |-> "ILS 5000", share_uri |-> NA]
    /\ en_tasks[1].st = "done"
    /\ en_tasks[2].st = "failed"


(* Claims on the announcements and the subscribers of the bot (SpecBot, SpecSubs) *)

\* the md5 keys of a set of items
Md5s(items) == {apt.md5 : apt \in items}

\* C37: the items a cycle finds new have md5 keys that no earlier cycle of
\* the process found new and that the store file did not hold when the bot
\* started, and only they are sent as new; a cycle that fails inside the
\* scraper finds nothing new and leaves the known apartments as they were;
\* and the known apartments only change at the end of a completed cycle, to
\* the content of the store file.
C37_AnnouncedAtMostOnce ==
    [][/\ bot_cycles' # bot_cycles =>
            /\ Md5s(new_apartments') \cap (bot_announced \cup bot_loaded) = {}
            /\ bot_pc' \in {"adapter_raised", "merge_raised"} =>
                  /\ new_apartments' = {}
                  /\ known_apartments' = known_apartments
       /\ \A m \in sent' : m.kind = "new" => m.md5 \in Md5s(new_apartments')
       /\ known_apartments' # known_apartments =>
            /\ bot_pc = "notify_updated" /\ bot_pc' = "completed"
            /\ known_apartments' = bot_file]_vars

C37_Witness ==
    /\ bot_cycles = 2
    /\ bot_pc = "notify_new"
    /\ bot_loaded # {}
    /\ new_apartments # {}
    /\ bot_announced \ Md5s(new_apartments) # {}
    /\ \E m \in sent : m.kind = "new"


\* the step handled the command or the button press op of the chat
Handled(op, chat_id) ==
    \E by \in {"command", "button"} :
        last_cmd' = {[op |-> op, chat |-> chat_id, by |-> by]}

\* C38: a chat whose last subscription event was a subscribe is in the
\* subscriber set, one whose last event was an unsubscribe or a removal after
\* a 'bot was blocked' or 'chat not found' send error is not, and one without
\* any event is in it exactly when it was before; a subscribe adds the chat
\* and changes nothing when the chat is already there; an unsubscribe removes
\* the chat and, when the chat is not there, leaves the set and the
\* subscribers file alone and does not call save_subscribers.
C38_SubscribersFollowLastAction ==
    [][\A chat_id \in CommandChats :
          /\ last_action'[chat_id] = "subscribe" => chat_id \in subscribed_chats'
          /\ last_action'[chat_id] \in {"unsubscribe", "removed"}
                => chat_id \notin subscribed_chats'
          /\ last_action'[chat_id] = last_action[chat_id]
                => (chat_id \in subscribed_chats' <=> chat_id \in subscribed_chats)
          /\ Handled("subscribe", chat_id) =>
                /\ subscribed_chats' = subscribed_chats \cup {chat_id}
                /\ chat_id \in subscribed_chats => subscribed_chats' = subscribed_chats
                /\ last_action'[chat_id] = "subscribe"
          /\ Handled("unsubscribe", chat_id) =>
                /\ subscribed_chats' = subscribed_chats \ {chat_id}
                /\ last_action'[chat_id] = "unsubscribe"
                /\ chat_id \notin subscribed_chats =>
                      /\ subscribed_chats' = subscribed_chats
                      /\ subs_file' = subs_file
                      /\ subs_saved' = FALSE]_vars

C38_Witness ==
    /\ last_cmd = {[op |-> "unsubscribe", chat |-> 1, by |-> "button"]}
    /\ subs_saved = FALSE
    /\ last_action[1] = "unsubscribe"
    /\ last_action[2] = "removed"
    /\ subscribed_chats = {}
    /\ subs_file = {{}}
    /\ bot_chats = {1}


(* Claims on the build id of a yad2 run (SpecBuild) *)

\* C39: in one run _fetch_build_id is called at most once and at most one
\* task waits for it, which is the fetch of page 1; the fetches of pages 2..N
\* are only started when page 1 was fetched and the build id is set, so none
\* of them finds the build id unset; and every request is sent with the build
\* id the run holds.
C39_BuildIdFetchedOnce ==
    /\ yad_fetches <= 1
    /\ Cardinality({p \in DOMAIN yad_tasks : yad_tasks[p].st = "fetch_id"}) <= 1
    /\ \A p \in DOMAIN yad_tasks :
          /\ (p > 1 /\ yad_tasks[p].st # "none") =>
                /\ yad_tasks[1].st = "done"
                /\ yad_build_id \in BuildIds
                /\ yad_tasks[p].st # "fetch_id"
          /\ yad_tasks[p].st \in {"get", "done"} => yad_tasks[p].url_id = yad_build_id

C39_Witness ==
    /\ yad_pc = "gather"
    /\ yad_fetches = 1
    /\ yad_build_id = "b2"
    /\ yad_tasks[2].st = "get"
    /\ yad_tasks[3].st = "sleep"
    /\ yad_tasks[4].st = "done"

=========================================================================
